---- MODULE Spec2Model ----
(***************************************************************************)
(* A model of godot_rust_mapgen: the typed voxel grid (datagrid.rs), the   *)
(* command dispatcher (resource.rs), the pipeline executor (nodes.rs) and  *)
(* the generation algorithms (algorithm.rs, algorithm/*.rs).               *)
(*                                                                         *)
(* Values.  A coordinate is a triple <<x, y, z>>.  A HashSet of            *)
(* coordinates is a set, a Vec a sequence, a HashMap<String, _> a function *)
(* whose domain is the set of keys present, an ndarray Array3 a function   *)
(* from the cells of its shape to scalars.  f64 scalars are integers of a  *)
(* fixed-point scale.  A format!() string is the sequence of its literal   *)
(* pieces and its arguments.  A Result is a record tagged "Ok" or "Err";   *)
(* a Rust panic is the record tagged "Panic", a loop that never ends the   *)
(* record tagged "Hang".                                                   *)
(***************************************************************************)
EXTENDS Integers, Sequences, FiniteSets, TLC

VARIABLES
    chain,      \* the scene tree under the root: chain[i+1] is child 0 of chain[i]
    seed,       \* the seed handed to generate
    depth,      \* the node whose generate() call is executing (0: none left)
    phase,      \* "enter": at the top of generate; "return": the child's call returned; "done"
    ret,        \* the value returned by the generate() call that returned last
    calls,      \* history: the run_none / run_one calls made so far, in order
    retB,       \* the value returned by a second run of the same tree with the same seed
    opInput,    \* a data grid handed to run_one
    opCmd,      \* the command resource whose run_one is called on opInput
    opOut,      \* what that call returned
    rr,         \* a call of random_rooms: its arguments and the locals of its loop
    result_grid, \* GeneratedGridMap.result_grid: None or the stored data grid
    cell_items, \* the cells of the GridMap base: coordinate -> <<item, orientation>>
    generated,  \* history: what the last generate call of the GeneratedGridMap got
    ts          \* a call of thstar: its arguments, its open and closed maps, its result

pipeVars == <<chain, seed, depth, phase, ret, calls, retB>>
opVars == <<opInput, opCmd, opOut>>
mapVars == <<result_grid, cell_items, generated>>
vars == <<chain, seed, depth, phase, ret, calls, retB, opInput, opCmd, opOut, rr,
          result_grid, cell_items, generated, ts>>

-----------------------------------------------------------------------------
(* Bounds of the model *)

\* the longest chain of nodes under the root
MaxDepth == 3

\* the largest count random_rooms is called with, and the attempts of its
\* loop that are followed
MaxCount == 2
MaxAttempts == 5
\* the steps of a cellular automaton run
MaxSteps == 2
\* the length of a position list to sort
MaxLen == 3

-----------------------------------------------------------------------------
(* Helpers *)

Range(s) == {s[i] : i \in DOMAIN s}

RECURSIVE SeqSum(_)
SeqSum(s) == IF s = <<>> THEN 0 ELSE Head(s) + SeqSum(Tail(s))

\* the permutations of a finite set, as sequences
RECURSIVE Perms(_)
Perms(S) ==
    IF S = {} THEN {<<>>}
    ELSE UNION {{<<e>> \o p : p \in Perms(S \ {e})} : e \in S}

\* the cells of an array of shape sz, and `0..n` of Rust (exclusive of n)
Upto(n) == 0 .. (n - 1)
Cells(sz) == Upto(sz[1]) \X Upto(sz[2]) \X Upto(sz[3])

-----------------------------------------------------------------------------
(* datagrid.rs: GridElement, Room, DataGrid *)

IntElem(arr)     == [kind |-> "Int", val |-> arr]
FloatElem(arr)   == [kind |-> "Float", val |-> arr]
SelElem(set)     == [kind |-> "Sel", val |-> set]
RoomsElem(rooms) == [kind |-> "Rooms", val |-> rooms]
ListElem(list)   == [kind |-> "List", val |-> list]

Room(members, center) == [members |-> members, center |-> center]

DataGrid(size, elements) == [size |-> size, elements |-> elements]

\* HashMap::new()
NoElements == [n \in {} |-> 0]

\* HashMap::insert, HashMap::remove, HashMap::get

Insert(elements, name, ge) ==
    [n \in DOMAIN elements \cup {name} |-> IF n = name THEN ge ELSE elements[n]]
\* a remove that leaves the map as it was
Remove_nothing(elements, name) == elements
Remove(elements, name) ==
    [n \in DOMAIN elements \ {name} |-> elements[n]]
Has(elements, name, kind) ==
    name \in DOMAIN elements /\ elements[name].kind = kind

\* DataGrid::sized
DataGrid_sized(sz) == DataGrid(sz, NoElements)

Ok(grid)   == [tag |-> "Ok", grid |-> grid]
Err(msg)   == [tag |-> "Err", msg |-> msg]
Panic      == [tag |-> "Panic"]
Hang       == [tag |-> "Hang"]
None       == [tag |-> "None"]

-----------------------------------------------------------------------------
(* resource.rs: MapGenCommand.  Every command resource holds every exported *)
(* field; a mode reads the ones of its group.                               *)

NoNeighborhood == [present |-> FALSE, offsets |-> <<>>, summing_expr |-> "", accumulator_base |-> 0]
Neighborhood(offsets, summing_expr, accumulator_base) ==
    [present |-> TRUE, offsets |-> offsets, summing_expr |-> summing_expr,
     accumulator_base |-> accumulator_base]

MapGenExpression(name, expr, result_kind) ==
    [name |-> name, expr |-> expr, result_kind |-> result_kind]

\* #[class(init)]: every field at its Default
MapGenCommand ==
    [mode |-> "Initialize", seed_salt |-> 0, source |-> "", save |-> "",
     init_size |-> <<0, 0, 0>>,
     expression_list |-> <<>>,
     noise |-> FALSE,
     neighborhood |-> NoNeighborhood, edge_mode |-> "Ignore",
     to_drop |-> <<>>,
     second_source |-> "", operation |-> "Union",
     allow_overlap |-> FALSE, count |-> 0,
     min_size |-> <<0, 0, 0>>, max_size |-> <<0, 0, 0>>,
     min_within |-> <<0, 0, 0>>, max_within |-> <<0, 0, 0>>, save_union |-> "",
     sort_axis |-> "Y", reverse |-> FALSE,
     position_list |-> <<>>,
     interval |-> <<0, 0, 0>>, offset |-> <<0, 0, 0>>,
     solid |-> "", sf_reverse |-> FALSE, column |-> FALSE,
     ca_rule |-> [present |-> FALSE, neighborhood |-> NoNeighborhood, result_expr |-> ""],
     steps |-> 0, apply_min |-> <<0, 0, 0>>, apply_max |-> <<0, 0, 0>>,
     max_slope |-> 0, vertical_skew |-> 0, points_list |-> ""]

\* MapGenCommand::needs_input
needs_input(self) == IF self.mode = "Initialize" THEN "No" ELSE "One"

-----------------------------------------------------------------------------
(* Collaborators outside the repository, as the deterministic functions the *)
(* code takes them to be.                                                   *)

\* godot Expression::parse: the expressions the model knows; anything else
\* does not parse
ParseOk(expr) ==
    expr \in {"position.x", "position.y", "position.z", "1", "position.x > 0",
              "acc + this", "acc || this", "acc * this",
              "sum", "state", "state + sum"}

\* godot Expression::execute on the input `dict` of parallel_expr
EvalDict(expr, pos) ==
    CASE expr = "position.x" -> pos[1]
      [] expr = "position.y" -> pos[2]
      [] expr = "position.z" -> pos[3]
      [] expr = "1" -> 1
      [] expr = "position.x > 0" -> (pos[1] > 0)

\* godot Expression::execute on the inputs (acc, this) of a summing expression
EvalAcc(expr, acc, this) ==
    CASE expr = "acc + this" -> acc + this
      [] expr = "acc * this" -> acc * this
      [] expr = "acc || this" -> (acc \/ this)

\* godot Expression::execute on the inputs (state, sum) of a result expression
EvalRes(expr, state, sum) ==
    CASE expr = "sum" -> sum
      [] expr = "state" -> state
      [] expr = "state + sum" -> state + sum

\* FastNoiseLite::get_noise_3d after set_seed(s): a value in [-1, 1]
get_noise_3d(s, x, y, z) == ((s + x + 2 * y + 3 * z) % 3) - 1

-----------------------------------------------------------------------------
(* datagrid.rs: DataGrid::parallel_expr *)

\* zeros with the axes taken in the reverse order
zeros_reversed(shape) == [c \in Cells(<<shape[3], shape[2], shape[1]>>) |-> 0]

\* ndarray Array3::zeros(shape)
zeros(shape) == [c \in Cells(shape) |-> 0]

\* the element a successful parallel_expr stores under `name`: the new array
\* (or selection), written at every x, y, z of the three loops over self.size
parallel_expr_elem(self, expr, typ) ==
    LET new == zeros(self.size)
        written == [c \in DOMAIN new |->
                      IF c \in Cells(self.size) THEN EvalDict(expr, c) ELSE new[c]]
    IN  CASE typ = "Int"   -> IntElem(written)
          [] typ = "Float" -> FloatElem(written)
          [] typ = "Bool"  -> SelElem({c \in Cells(self.size) : EvalDict(expr, c)})

parallel_expr(self, name, expr, typ) ==
    IF ~ParseOk(expr)
    THEN Err(<<"Expression parse error: ", "ERR_INVALID_PARAMETER">>)
    ELSE Ok(DataGrid(self.size,
                     Insert(self.elements, name, parallel_expr_elem(self, expr, typ))))

-----------------------------------------------------------------------------
(* datagrid.rs: DataGrid::check_pos and DataGrid::sample_neighborhood.      *)
(* A usize is written as the i64 of the same 64 bits, so the result of      *)
(* `-1 as usize` is -1 here: it is out of the bounds of every array, and    *)
(* `as i64` gives -1 back.                                                  *)

\* Rust's % on i32: the remainder has the sign of the dividend
Rem(a, b) == IF a >= 0 THEN a % b ELSE -((-a) % b)

NoPos == [some |-> FALSE, v |-> 0]
SomePos(v) == [some |-> TRUE, v |-> v]

\* check_axis with Loop taken as Clamp
check_axis_clamped(p, n, mode) ==
    IF p > 0 /\ p < n THEN SomePos(p)
    ELSE IF mode = "Ignore" THEN NoPos
    ELSE IF p < 0 THEN SomePos(0)
    ELSE SomePos(n - 1)

\* one axis of check_pos: the if / else-if chain on pos.k against self.size.k
check_axis(p, n, mode) ==
    IF p > 0 /\ p < n THEN SomePos(p)
    ELSE IF mode = "Ignore" THEN NoPos
    ELSE IF mode = "Loop" THEN SomePos(Rem(p, n))
    ELSE IF p < 0 THEN SomePos(0)
    ELSE SomePos(n - 1)

\* DataGrid::check_pos: None, or Some([newx, newy, newz])
check_pos(self, pos, mode) ==
    LET ax == [k \in 1..3 |-> check_axis(pos[k], self.size[k], mode)]
    IN  IF \A k \in 1..3 : ax[k].some
        THEN SomePos(<<ax[1].v, ax[2].v, ax[3].v>>)
        ELSE NoPos

\* the loop over nh.offsets at one voxel c, from offset i on: the final
\* accumulator, or a panic when an array is indexed out of its bounds
RECURSIVE nh_fold(_, _, _, _, _, _, _, _)
nh_fold(self, source_elem, offsets, expr, em, c, i, accumulator) ==
    IF i > Len(offsets) THEN [panic |-> FALSE, acc |-> accumulator]
    ELSE LET os == offsets[i]
             checkpos == check_pos(self, <<c[1] + os[1], c[2] + os[2], c[3] + os[3]>>, em)
         IN  IF ~checkpos.some
             THEN nh_fold(self, source_elem, offsets, expr, em, c, i + 1, accumulator)
             ELSE IF source_elem.kind = "Sel"
             THEN nh_fold(self, source_elem, offsets, expr, em, c, i + 1,
                          EvalAcc(expr, accumulator, checkpos.v \in source_elem.val))
             ELSE IF checkpos.v \notin DOMAIN source_elem.val
             THEN [panic |-> TRUE, acc |-> accumulator]
             ELSE nh_fold(self, source_elem, offsets, expr, em, c, i + 1,
                          EvalAcc(expr, accumulator, source_elem.val[checkpos.v]))

\* DataGrid::sample_neighborhood
sample_neighborhood(self, nh, em, source, save) ==
    IF source \notin DOMAIN self.elements
    THEN Err(<<"Field '", source, "' not found on data grid.">>)
    ELSE
    LET source_elem == self.elements[source]
        is_bool == source_elem.kind = "Sel"
        expr == IF nh.summing_expr = ""
                THEN (IF is_bool THEN "acc || this" ELSE "acc + this")
                ELSE nh.summing_expr
        base == IF is_bool THEN nh.accumulator_base > 0 ELSE nh.accumulator_base
        new == zeros(self.size)
        at == [c \in Cells(self.size) |->
                 nh_fold(self, source_elem, nh.offsets, expr, em, c, 1, base)]
        written == [c \in DOMAIN new |-> IF c \in DOMAIN at THEN at[c].acc ELSE new[c]]
        new_ge == CASE source_elem.kind = "Int" -> IntElem(written)
                    [] source_elem.kind = "Float" -> FloatElem(written)
                    [] OTHER -> SelElem({c \in Cells(self.size) : at[c].acc})
    IN  \* datagrid.rs declares no List element, so its match has no arm for
        \* one: a list source is taken like a room list
        IF source_elem.kind \in {"Rooms", "List"}
        THEN Err(<<"SampleNeighborhood called on a room list field (incompatible).">>)
        ELSE IF ~ParseOk(expr)
        THEN Err(<<"Expression parse error: ", "ERR_INVALID_PARAMETER">>)
        ELSE IF \E c \in Cells(self.size) : at[c].panic
        THEN Panic
        ELSE Ok(DataGrid(self.size, Insert(self.elements, save, new_ge)))

-----------------------------------------------------------------------------
(* algorithm.rs: AlgorithmHelper::random_rooms *)

RectPrism(min, max) == [min |-> min, max |-> max]

\* the members and the center of the room of size s placed at p
\* usize as the model keeps it: UsizeBits bits wide.  `a - b` on usize wraps
\* when overflow checks are off (the release profile) and panics when they
\* are on (the debug profile); `as i64` reads the same bits as a signed value
UsizeBits == 3
UsizeRange == 2 ^ UsizeBits
wrapping_sub(a, b) == (a - b) % UsizeRange
wrapping_add(a, b) == (a + b) % UsizeRange
as_i64(v) == IF v >= UsizeRange \div 2 THEN v - UsizeRange ELSE v

room_members(s, p) ==
    {<<as_i64(wrapping_add(x, p[1])), as_i64(wrapping_add(y, p[2])),
       as_i64(wrapping_add(z, p[3]))>> : <<x, y, z>> \in Cells(s)}
room_center(s, p) ==
    <<as_i64(wrapping_add(p[1], s[1] \div 2)), as_i64(wrapping_add(p[2], s[2] \div 2)),
      as_i64(wrapping_add(p[3], s[3] \div 2))>>

\* random_range(sized.min.k ..= sized.max.k) on each axis: what can be drawn
room_sizes(sized) ==
    (sized.min[1] .. sized.max[1]) \X (sized.min[2] .. sized.max[2])
        \X (sized.min[3] .. sized.max[3])
\* random_range(within.min.k .. (within.max.k - s.k)) on each axis
room_positions(within, s) ==
    (within.min[1] .. (wrapping_sub(within.max[1], s[1]) - 1))
        \X (within.min[2] .. (wrapping_sub(within.max[2], s[2]) - 1))
        \X (within.min[3] .. (wrapping_sub(within.max[3], s[3]) - 1))
\* `within.max.k - s.k` leaves usize on some axis
room_overflows(within, s) ==
    \E k \in 1..3 : s[k] > within.max[k]

\* the acceptance test without the disjointness test
room_accepted_always(uni, members, allow_overlap) == TRUE

\* the acceptance test of one attempt
room_accepted(uni, members, allow_overlap) ==
    allow_overlap \/ uni \cap members = {}

\* the body of the while loop once the size s and the position p are drawn:
\* the new rms and uni
room_attempt(rms, uni, s, p, allow_overlap) ==
    LET members == room_members(s, p)
    IN  IF room_accepted(uni, members, allow_overlap)
        THEN [rms |-> Append(rms, Room(members, room_center(s, p))),
              uni |-> uni \cup members]
        ELSE [rms |-> rms, uni |-> uni]

\* the condition of the while loop; `safety` is count * 2 and is never
\* written in the loop
room_loop_cond(safety, rms, count) ==
    safety > 0 /\ Len(rms) < count

\* ChaCha12Rng as a stand-in generator of period RngPeriod: its state after
\* seed_from_u64, its next state, and a draw of random_range from a set
RngPeriod == 7
rng_seed(sd) == sd % RngPeriod
rng_next(r) == (r + 3) % RngPeriod
rng_pick(r, S) ==
    LET n == Cardinality(S)
        rank(e) == Cardinality({f \in S : \A k \in 1..3 :
                                   f[k] # e[k] => \E j \in 1..k : f[j] < e[j]})
    IN  CHOOSE e \in S : rank(e) = (r % n) + 1

\* the loop of random_rooms under the stand-in generator.  `failed` counts
\* the attempts rejected in a row: after RngPeriod of them the generator
\* repeats itself with rms and uni unchanged, and the loop never ends
RECURSIVE random_rooms_loop(_, _, _, _, _, _, _, _, _)
random_rooms_loop(count, within, sized, allow_overlap, rms, uni, r, failed, overflow_checks) ==
    IF ~room_loop_cond(count * 2, rms, count) THEN Ok(<<rms, uni>>)
    ELSE IF room_sizes(sized) = {} THEN Panic
    ELSE LET s == rng_pick(r, room_sizes(sized))
         IN  IF overflow_checks /\ room_overflows(within, s) THEN Panic
             ELSE IF room_positions(within, s) = {} THEN Panic
             ELSE LET p == rng_pick(rng_next(r), room_positions(within, s))
                      st == room_attempt(rms, uni, s, p, allow_overlap)
                  IN  IF st.rms # rms
                      THEN random_rooms_loop(count, within, sized, allow_overlap,
                                             st.rms, st.uni, rng_next(rng_next(r)), 0,
                                             overflow_checks)
                      ELSE IF failed + 1 >= RngPeriod THEN Hang
                      ELSE random_rooms_loop(count, within, sized, allow_overlap,
                                             rms, uni, rng_next(rng_next(r)), failed + 1,
                                             overflow_checks)

\* what the call can return, in a build with overflow checks and in one without
random_rooms(count, sd, within, sized, allow_overlap) ==
    {random_rooms_loop(count, within, sized, allow_overlap, <<>>, {}, rng_seed(sd), 0,
                       overflow_checks) : overflow_checks \in BOOLEAN}

-----------------------------------------------------------------------------
(* resource.rs: MapGenCommand::run_none *)

\* run_none with the size test off by one (`< 0` for `< 1`)
run_none_below_zero(self, sd, name) ==
    IF self.mode = "Initialize"
    THEN IF self.init_size[1] < 0 \/ self.init_size[2] < 0 \/ self.init_size[3] < 0
         THEN Err(<<"Initialize command '", name, "' was set to invalid size!">>)
         ELSE Ok(DataGrid_sized(self.init_size))
    ELSE Err(<<"Attempted to run command '", name,
               "' by without input, but input was expected!">>)

run_none(self, sd, name) ==
    IF self.mode = "Initialize"
    THEN IF self.init_size[1] < 1 \/ self.init_size[2] < 1 \/ self.init_size[3] < 1
         THEN Err(<<"Initialize command '", name, "' was set to invalid size!">>)
         ELSE Ok(DataGrid_sized(self.init_size))
    ELSE Err(<<"Attempted to run command '", name,
               "' by without input, but input was expected!">>)

-----------------------------------------------------------------------------
(* resource.rs: MapGenCommand::run_one, one operator for each arm of its    *)
(* match.  Each gives the set of the values the call can return: one value, *)
(* but for the arms that walk a HashSet, whose order RandomState draws      *)
(* anew for every set.                                                      *)

With(input, elements) == DataGrid(input.size, elements)

\* the for loop over expression_list, from entry i on
RECURSIVE run_expressions(_, _, _, _)
run_expressions(self, input, name, i) ==
    IF i > Len(self.expression_list) THEN Ok(input)
    ELSE LET e == self.expression_list[i]
             res == parallel_expr(input, e.name, e.expr, e.result_kind)
         IN  IF res.tag = "Err"
             THEN Err(<<"Error running command '", name, "': Expression '", e.name,
                        "' execution failed with '">> \o res.msg \o <<"'">>)
             ELSE run_expressions(self, res.grid, name, i + 1)

run_Expressions(self, sd, input, name) == {run_expressions(self, input, name, 1)}

run_SampleNoise(self, sd, input, name) ==
    IF ~self.noise
    THEN {Err(<<"SampleNoise command '", name, "' had no noise supplied!">>)}
    ELSE LET sample == [c \in Cells(input.size) |->
                          get_noise_3d(sd + self.seed_salt, c[1], c[2], c[3])]
         IN  {Ok(With(input, Insert(input.elements, self.save, FloatElem(sample))))}

run_SampleNeighborhood(self, sd, input, name) ==
    IF ~self.neighborhood.present
    THEN {Err(<<"SampleNeighborhood command '", name, "' had no neighborhood supplied!">>)}
    ELSE LET res == sample_neighborhood(input, self.neighborhood, self.edge_mode,
                                        self.source, self.save)
         IN  IF res.tag = "Err"
             THEN {Err(<<"Error running command '", name,
                         "': Sampling execution failed with '">> \o res.msg \o <<"'">>)}
             ELSE {res}

run_OuterWalls(self, sd, input, name) ==
    IF self.save = ""
    THEN {Err(<<"OuterFaces command '", name, "' had empty save string supplied!">>)}
    ELSE LET sz == input.size
             select ==
                {<<x, y, 0>> : <<x, y>> \in Upto(sz[1]) \X Upto(sz[2])}
                \cup {<<x, y, sz[3]>> : <<x, y>> \in Upto(sz[1]) \X Upto(sz[2])}
                \cup {<<x, 0, z>> : <<x, z>> \in Upto(sz[1]) \X Upto(sz[3])}
                \cup {<<x, sz[2], z>> : <<x, z>> \in Upto(sz[1]) \X Upto(sz[3])}
                \cup {<<0, y, z>> : <<y, z>> \in Upto(sz[2]) \X Upto(sz[3])}
                \cup {<<sz[1], y, z>> : <<y, z>> \in Upto(sz[2]) \X Upto(sz[3])}
         IN  {Ok(With(input, Insert(input.elements, self.save, SelElem(select))))}

RECURSIVE drop_fields(_, _, _)
drop_fields(elements, to_drop, i) ==
    IF i > Len(to_drop) THEN elements
    ELSE drop_fields(Remove(elements, to_drop[i]), to_drop, i + 1)

run_DropFields(self, sd, input, name) ==
    {Ok(With(input, drop_fields(input.elements, self.to_drop, 1)))}

run_RandomRooms(self, sd, input, name) ==
    LET sizes == RectPrism(self.min_size, self.max_size)
        area == RectPrism(self.min_within, self.max_within)
        after(res) ==
            IF res.tag = "Ok"
            THEN LET with_rooms == Insert(input.elements, self.save, RoomsElem(res.grid[1]))
                 IN  Ok(With(input,
                             IF self.save_union # ""
                             THEN Insert(with_rooms, self.save_union, SelElem(res.grid[2]))
                             ELSE with_rooms))
            ELSE res
    IN  {after(res) : res \in random_rooms(self.count, sd + self.seed_salt, area, sizes,
                                           self.allow_overlap)}

\* the key of the sort, and whether entry a is ordered strictly before b
sort_key(self, a) ==
    CASE self.sort_axis = "X" -> a[1]
      [] self.sort_axis = "Y" -> a[2]
      [] self.sort_axis = "Z" -> a[3]
\* a comparison that also puts a before an entry of the same key
sort_less_or_equal(self, a, b) ==
    IF self.reverse THEN sort_key(self, a) >= sort_key(self, b)
    ELSE sort_key(self, a) <= sort_key(self, b)

sort_less(self, a, b) ==
    IF self.reverse THEN sort_key(self, a) > sort_key(self, b)
    ELSE sort_key(self, a) < sort_key(self, b)

\* slice::sort_by, a stable sort: e goes before the first entry it is
\* strictly less than
RECURSIVE sort_insert(_, _, _)
sort_insert(self, sorted, e) ==
    IF sorted = <<>> THEN <<e>>
    ELSE IF sort_less(self, e, Head(sorted)) THEN <<e>> \o sorted
    ELSE <<Head(sorted)>> \o sort_insert(self, Tail(sorted), e)
RECURSIVE sort_by(_, _)
sort_by(self, vec) ==
    IF vec = <<>> THEN <<>>
    ELSE sort_insert(self, sort_by(self, SubSeq(vec, 1, Len(vec) - 1)), vec[Len(vec)])

run_SortList(self, sd, input, name) ==
    IF Has(input.elements, self.source, "List")
    THEN LET vec == input.elements[self.source].val
             rest == Remove(input.elements, self.source)
         IN  {Ok(With(input, Insert(rest, self.save, ListElem(sort_by(self, vec)))))}
    ELSE {Err(<<"Attempted to run SortList command '", name,
                "' on a field that wasn't a List field!">>)}

\* the match on self.operation with the operands of Difference exchanged
set_boolean_exchanged(operation, a, b) ==
    CASE operation = "Union" -> a \cup b
      [] operation = "Intersection" -> a \cap b
      [] operation = "Difference" -> b \ a

\* the three arms of the match on self.operation
set_boolean(operation, a, b) ==
    CASE operation = "Union" -> a \cup b
      [] operation = "Intersection" -> a \cap b
      [] operation = "Difference" -> a \ b

run_SetOps(self, sd, input, name) ==
    IF Has(input.elements, self.source, "Sel")
    THEN IF Has(input.elements, self.second_source, "Sel")
         THEN LET a == input.elements[self.source].val
                  b == input.elements[self.second_source].val
                  newset == set_boolean(self.operation, a, b)
              IN  {Ok(With(input, Insert(input.elements, self.save, SelElem(newset))))}
         ELSE {Err(<<"Attempted to run SetOps command '", name,
                     "' with a non-boolean second source!">>)}
    ELSE {Err(<<"Attempted to run SetOps command '", name, "' with a non-boolean source!">>)}

-----------------------------------------------------------------------------
(* algorithm/pathcarver.rs: SearchMap.  A voxel [usize; 3] is kept as the   *)
(* triple of the signed values it is cast from and to (`as usize`, `as      *)
(* i64`): a negative coordinate stands for the usize near 2^64 it wraps to. *)

Ratio(n, d) == [num |-> n, den |-> d]
Abs(x) == IF x < 0 THEN -x ELSE x

\* a SearchMap: weight_array with its dim(), max_slope (a ratio) and
\* vertical_skew
SearchMap(weight_array, dim, max_slope, vertical_skew) ==
    [weight_array |-> weight_array, dim |-> dim, max_slope |-> max_slope,
     vertical_skew |-> vertical_skew]

\* `a as f32 - b as f32` on usize coordinates.  A wrapped coordinate is 2^64
\* as f32, which absorbs every grid coordinate: the difference is 0 or
\* + or - FHuge, the stand-in for 2^64
FHuge == 1000000
fsub(a, b) ==
    IF a < 0 /\ b < 0 THEN 0
    ELSE IF a < 0 THEN FHuge
    ELSE IF b < 0 THEN -FHuge
    ELSE a - b
vec_sub(a, b) == <<fsub(a[1], b[1]), fsub(a[2], b[2]), fsub(a[3], b[3])>>
IsHuge(x) == x >= FHuge \/ x <= -FHuge
HasHuge(v) == \E k \in 1..3 : IsHuge(v[k])
Wrapped(a) == \E k \in 1..3 : a[k] < 0

\* the integer square root
RECURSIVE isqrt_from(_, _)
isqrt_from(n, x) ==
    LET y == (x + (n \div x)) \div 2
    IN  IF y >= x THEN x ELSE isqrt_from(n, y)
isqrt(n) == IF n = 0 THEN 0 ELSE isqrt_from(n, n)

\* an f32 distance: finite, in thousandths, or infinite, or NaN
Fin(milli) == [class |-> "fin", milli |-> milli]
FInf == [class |-> "inf", milli |-> 0]
FNaN == [class |-> "nan", milli |-> 0]

\* SearchMap::distance.  (2^64)^2 is infinite in f32, and 0 * infinity is NaN
distance(self, a, b) ==
    LET dx == fsub(a[1], b[1])
        dy == fsub(a[2], b[2])
        dz == fsub(a[3], b[3])
        skew2 == self.vertical_skew * self.vertical_skew
    IN  IF IsHuge(dy) /\ skew2 = 0 THEN FNaN
        ELSE IF IsHuge(dx) \/ IsHuge(dz) \/ IsHuge(dy) THEN FInf
        ELSE Fin(isqrt(isqrt((dx * dx + dz * dz) * 1000000) * 1000
                       + skew2 * dy * dy * 1000000))

\* SearchMap::check
check(self, a) ==
    IF a[1] < 0 \/ a[1] >= self.dim[1] THEN NoPos
    ELSE IF a[2] < 0 \/ a[2] >= self.dim[2] THEN NoPos
    ELSE IF a[3] < 0 \/ a[3] >= self.dim[3] THEN NoPos
    ELSE SomePos(a)

\* grid_ray::GridRayIter3 on a start at a lattice point and a direction with
\* integer components: the voxel traversal of Amanatides and Woo.  next()
\* gives (time of entrance, voxel), first (0, start voxel).  Times are kept
\* multiplied by ray_scale(direction); RayNever is the time of an axis the
\* direction has no component on
RayNever == FHuge
ray_scale(v) ==
    (IF v[1] = 0 THEN 1 ELSE Abs(v[1])) * (IF v[2] = 0 THEN 1 ELSE Abs(v[2]))
        * (IF v[3] = 0 THEN 1 ELSE Abs(v[3]))
ray_new(start, v) ==
    [t |-> 0, cur |-> start,
     t_max |-> [k \in 1..3 |-> IF v[k] > 0 THEN ray_scale(v) \div v[k]
                                ELSE IF v[k] < 0 THEN 0 ELSE RayNever]]
ray_axis(t_max) ==
    IF t_max[1] < t_max[2]
    THEN (IF t_max[1] < t_max[3] THEN 1 ELSE 3)
    ELSE (IF t_max[2] < t_max[3] THEN 2 ELSE 3)
ray_step(ray, v) ==
    LET a == ray_axis(ray.t_max)
    IN  [t |-> ray.t_max[a],
         cur |-> [ray.cur EXCEPT ![a] = @ + (IF v[a] < 0 THEN -1 ELSE 1)],
         t_max |-> [ray.t_max EXCEPT ![a] =
                       IF v[a] = 0 THEN RayNever ELSE @ + (ray_scale(v) \div Abs(v[a]))]]
\* et < mag, with mag = along.mag()
et_below_mag(et, v) ==
    et * et < (v[1] * v[1] + v[2] * v[2] + v[3] * v[3]) * ray_scale(v) * ray_scale(v)

\* SearchMap::search_cost: the while loop.  From a wrapped start, or along a
\* vector with a component near 2^64, the first voxel met after time 0 is
\* outside the array and the loop breaks with cost 0
RECURSIVE search_cost_loop(_, _, _, _, _)
search_cost_loop(self, along, ray, et, cost) ==
    IF ~et_below_mag(et, along) THEN cost
    ELSE IF et > 0 /\ ~check(self, ray.cur).some THEN cost
    ELSE search_cost_loop(self, along, ray_step(ray, along), ray.t,
                          IF et > 0 THEN cost + self.weight_array[ray.cur] ELSE cost)
search_cost(self, start, along) ==
    IF Wrapped(start) \/ HasHuge(along) THEN 0
    ELSE search_cost_loop(self, along, ray_new(start, along), 0, 0)

\* SearchMap::search_select: the while loop
RECURSIVE search_select_loop(_, _, _, _)
search_select_loop(along, ray, et, sel) ==
    IF ~et_below_mag(et, along) THEN sel
    ELSE search_select_loop(along, ray_step(ray, along), ray.t, sel \cup {ray.cur})
search_select(self, start, along, sel) ==
    search_select_loop(along, ray_new(start, along), 0, sel)
\* whether that loop ever ends: along a vector with a component near 2^64
\* mag is infinite, and from a wrapped start the times stop growing
search_select_ends(start, along) == ~Wrapped(start) /\ ~HasHuge(along)

\* a Node of the search
Node(cost, end_dist, parent, pvec) ==
    [cost |-> cost, end_dist |-> end_dist, parent |-> parent, pvec |-> pvec]

\* Node::score, in thousandths for the factor 8192: NaN is cast to 0 and
\* infinity to i64::MAX
ScoreMax == 2000 * FHuge
score(node) ==
    CASE node.end_dist.class = "nan" -> 0
      [] node.end_dist.class = "inf" -> ScoreMax
      [] OTHER -> node.cost * 1000 + ((node.end_dist.milli * 12) \div 10)

offset_list ==
    << <<0, 0, 1>>, <<0, 0, -1>>, <<1, 0, 0>>, <<-1, 0, 0>>,
       <<0, 1, 1>>, <<0, 1, -1>>, <<1, 1, 0>>, <<-1, 1, 0>>,
       <<0, -1, 1>>, <<0, -1, -1>>, <<1, -1, 0>>, <<-1, -1, 0>> >>

\* nvec.y.abs() / dx.abs() > self.max_slope.  dx is infinite when x or z is
\* near 2^64
slope_exceeds(self, nvec) ==
    IF IsHuge(nvec[1]) \/ IsHuge(nvec[3]) THEN FALSE
    ELSE IF IsHuge(nvec[2]) THEN TRUE
    ELSE nvec[2] * nvec[2] * self.max_slope.den * self.max_slope.den
            > self.max_slope.num * self.max_slope.num
                * (nvec[1] * nvec[1] + nvec[3] * nvec[3])

\* dotprod = nvec.normalized().dot(pvec.normalized()) against the two
\* thresholds.  The zero vector normalizes to NaN, and a vector with a
\* component near 2^64 (its magnitude is infinite) to the zero vector
dot_int(n, p) == n[1] * p[1] + n[2] * p[2] + n[3] * p[3]
\* a normalization that never gives NaN
dot_never_nan(n, p) == FALSE
dot_is_nan(n, p) == n = <<0, 0, 0>> \/ p = <<0, 0, 0>>
dot_above_reversal(n, p) ==          \* dotprod > -0.05
    IF dot_is_nan(n, p) THEN FALSE
    ELSE IF HasHuge(n) \/ HasHuge(p) THEN TRUE
    ELSE dot_int(n, p) >= 0
         \/ 400 * dot_int(n, p) * dot_int(n, p) < dot_int(n, n) * dot_int(p, p)
dot_below_aligned(n, p) ==           \* dotprod < -0.75
    IF dot_is_nan(n, p) THEN FALSE
    ELSE IF HasHuge(n) \/ HasHuge(p) THEN FALSE
    ELSE dot_int(n, p) < 0
         /\ 16 * dot_int(n, p) * dot_int(n, p) > 9 * dot_int(n, n) * dot_int(p, p)

\* the filter of line 92: whether the candidate move is skipped
move_rejected(self, nvec, pvec) ==
    slope_exceeds(self, nvec) \/ dot_above_reversal(nvec, pvec)

\* the cost a node is inserted with
InitialCost == 1000000

\* the body of the for loop for one offset: the open map after it
visit_offset(self, end, bp, bn, open, closed, offs) ==
    LET moved == <<bp[1] + offs[1], bp[2] + offs[2], bp[3] + offs[3]>>
        nvec == vec_sub(moved, bp)
    IN  IF ~check(self, moved).some THEN open
        ELSE IF moved \in DOMAIN closed THEN open
        ELSE IF move_rejected(self, nvec, bn.pvec) THEN open
        ELSE LET mr == IF moved \in DOMAIN open THEN open[moved]
                       ELSE Node(InitialCost, distance(self, end, moved), bp, nvec)
                 p == bn.parent
                 relaxed ==
                    IF dot_below_aligned(nvec, bn.pvec)
                    THEN LET new_cost == closed[p].cost + search_cost(self, p, nvec)
                         IN  IF new_cost < mr.cost
                             THEN [mr EXCEPT !.cost = new_cost, !.parent = p,
                                             !.pvec = vec_sub(moved, p)]
                             ELSE mr
                    ELSE LET new_cost == bn.cost + search_cost(self, bp, nvec)
                         IN  IF new_cost < mr.cost
                             THEN [mr EXCEPT !.cost = new_cost, !.parent = bp, !.pvec = nvec]
                             ELSE mr
             IN  [k \in DOMAIN open \cup {moved} |-> IF k = moved THEN relaxed ELSE open[k]]

\* the for loop over offset_list, from entry i on
RECURSIVE visit_offsets(_, _, _, _, _, _, _)
visit_offsets(self, end, bp, bn, open, closed, i) ==
    IF i > Len(offset_list) THEN open
    ELSE visit_offsets(self, end, bp, bn,
                       visit_offset(self, end, bp, bn, open, closed, offset_list[i]),
                       closed, i + 1)

\* the keys min_by_key can give: the order of HashMap::iter decides between
\* nodes of the same score
min_keys(open) ==
    {k \in DOMAIN open : \A j \in DOMAIN open : score(open[k]) <= score(open[j])}

\* the walk along the parents once the goal is popped: Ok(sel), or no
\* return when a search_select on the way does not end
RECURSIVE reconstruct(_, _, _, _, _, _)
reconstruct(self, start, closed, current, node, sel) ==
    IF current = start THEN [tag |-> "Ok", path |-> sel]
    ELSE LET nd == IF current \in DOMAIN closed THEN closed[current] ELSE node
         IN  IF ~search_select_ends(nd.parent, nd.pvec) THEN Hang
             ELSE reconstruct(self, start, closed, nd.parent, nd,
                              search_select(self, nd.parent, nd.pvec, sel))

\* the state of thstar before its loop
thstar_begin(self, startpos, endpos) ==
    [self |-> self, start |-> startpos, end |-> endpos,
     open |-> [k \in {startpos} |-> Node(0, distance(self, startpos, endpos), startpos,
                                         <<0, 0, 0>>)],
     closed |-> [k \in {} |-> Node(0, FNaN, startpos, <<0, 0, 0>>)],
     opened |-> {startpos}, result |-> None]

\* one turn of the while loop on the node of key `key`
thstar_turn(s, key) ==
    LET bn == s.open[key]
        rest == [k \in DOMAIN s.open \ {key} |-> s.open[k]]
    IN  IF key = s.end
        THEN [s EXCEPT !.open = rest,
                       !.result = reconstruct(s.self, s.start, s.closed, key, bn, {})]
        ELSE LET after == visit_offsets(s.self, s.end, key, bn, rest, s.closed, 1)
             IN  [s EXCEPT !.open = after,
                           !.closed = [k \in DOMAIN s.closed \cup {key} |->
                                          IF k = key THEN bn ELSE s.closed[k]],
                           !.opened = @ \cup DOMAIN after]

\* thstar as one call: the values it can return
RECURSIVE thstar_loop(_)
thstar_loop(s) ==
    IF s.result # None THEN {s.result}
    ELSE IF DOMAIN s.open = {} THEN {[tag |-> "Err"]}
    ELSE UNION {thstar_loop(thstar_turn(s, key)) : key \in min_keys(s.open)}
thstar(self, startpos, endpos) == thstar_loop(thstar_begin(self, startpos, endpos))

\* the loop over the segments of the list from ridx on (ridx counted from 1):
\* the values uni can have after it, or no return; a failed segment is skipped
RECURSIVE carve_segments(_, _, _, _)
carve_segments(sm, vec, ridx, uni) ==
    IF ridx > Len(vec) - 1 THEN {[tag |-> "Done", uni |-> uni]}
    ELSE UNION {IF result = Hang THEN {Hang}
                ELSE carve_segments(sm, vec, ridx + 1,
                                    IF result.tag = "Ok" THEN uni \cup result.path ELSE uni) :
                   result \in thstar(sm, vec[ridx], vec[ridx + 1])}

\* both sources are taken out of the grid; with an empty list vec.len() - 1
\* underflows and vec[0] is out of bounds
run_CarvePaths(self, sd, input, name) ==
    IF Has(input.elements, self.source, "Float")
    THEN LET arr == input.elements[self.source].val
             rest1 == Remove(input.elements, self.source)
         IN  IF Has(rest1, self.points_list, "List")
             THEN LET vec == rest1[self.points_list].val
                      rest == Remove(rest1, self.points_list)
                      sm == SearchMap(arr, input.size, Ratio(Abs(self.max_slope), 1),
                                      Abs(self.vertical_skew))
                  IN  IF Len(vec) = 0 THEN {Panic}
                      ELSE {IF r = Hang THEN Hang
                            ELSE Ok(With(input, Insert(rest, self.save, SelElem(r.uni)))) :
                               r \in carve_segments(sm, vec, 1, {})}
             ELSE {Err(<<"Attempted to run CarvePaths command '", name,
                         "' without providing a set of rooms to connect!">>)}
    ELSE {Err(<<"Attempted to run CarvePaths command '", name,
                "' without providing a (float) weights field!">>)}

-----------------------------------------------------------------------------
(* resource.rs: MapGenCommand::run_one, the arms after CarvePaths *)

run_GetRoomCenters(self, sd, input, name) ==
    IF Has(input.elements, self.source, "Rooms")
    THEN LET vec == input.elements[self.source].val
             list == [i \in DOMAIN vec |-> vec[i].center]
         IN  {Ok(With(input, Insert(input.elements, self.save, ListElem(list))))}
    ELSE {Err(<<"Attempted to run GetRoomCenters command '", name,
                "' with a non-rooms source!">>)}

run_ListInput(self, sd, input, name) ==
    {Ok(With(input, Insert(input.elements, self.save, ListElem(self.position_list))))}

\* ListToSel that returns its input when the source is no list
run_ListToSel_lenient(self, sd, input, name) ==
    IF Has(input.elements, self.source, "List")
    THEN LET vec == input.elements[self.source].val
             rest == Remove(input.elements, self.source)
         IN  {Ok(With(input, Insert(rest, self.save, SelElem(Range(vec)))))}
    ELSE {Ok(input)}

run_ListToSel(self, sd, input, name) ==
    IF Has(input.elements, self.source, "List")
    THEN LET vec == input.elements[self.source].val
             rest == Remove(input.elements, self.source)
         IN  {Ok(With(input, Insert(rest, self.save, SelElem(Range(vec)))))}
    ELSE {Err(<<"Attempted to run ListToSel command '", name, "' with a non-list source!">>)}

\* HashSet::iter: the members in the order of the set's hash table, which
\* RandomState's per-set random keys decide
hash_iter(set) == Perms(set)

run_SelToList(self, sd, input, name) ==
    IF Has(input.elements, self.source, "Sel")
    THEN LET sel == input.elements[self.source].val
             rest == Remove(input.elements, self.source)
         IN  {Ok(With(input, Insert(rest, self.save, ListElem(list)))) : list \in hash_iter(sel)}
    ELSE {Err(<<"Attempted to run SelToList command '", name, "' with a non-boolean source!">>)}

\* (start as usize .. end).step_by(step as usize): None when step_by panics
\* on a step of 0; a negative start is past every end, a negative step is
\* longer than every range
step_range(start, end, step) ==
    IF start < 0 THEN {}
    ELSE {v \in start .. (end - 1) : IF step < 0 THEN v = start ELSE (v - start) % step = 0}

run_IntervalSelect(self, sd, input, name) ==
    LET sz == input.size
        step == self.interval[3]
    IN  IF step = 0 THEN {Panic}
        ELSE LET select == step_range(self.offset[1], sz[1], step)
                           \X step_range(self.offset[2], sz[2], step)
                           \X step_range(self.offset[3], sz[3], step)
             IN  {Ok(With(input, Insert(input.elements, self.save, SelElem(select))))}

\* one step along y
fall_step(self, pos) ==
    IF self.sf_reverse THEN <<pos[1], pos[2] + 1, pos[3]>> ELSE <<pos[1], pos[2] - 1, pos[3]>>

\* whether the while loop started at pos ever finds a wall cell
fall_ends(self, wall, pos) ==
    \E w \in wall : /\ w[1] = pos[1] /\ w[3] = pos[3]
                    /\ IF self.sf_reverse THEN w[2] > pos[2] ELSE w[2] < pos[2]

\* the while loop without the inserts of column
RECURSIVE fall_walk_rest_only(_, _, _, _, _)
fall_walk_rest_only(self, wall, prev, fore, output) ==
    IF fore \in wall THEN output \cup {prev}
    ELSE fall_walk_rest_only(self, wall, fore, fall_step(self, fore), output)

\* the while loop: what it has inserted into output, and the final insert
RECURSIVE fall_walk(_, _, _, _, _)
fall_walk(self, wall, prev, fore, output) ==
    IF fore \in wall THEN output \cup {prev}
    ELSE fall_walk(self, wall, fore, fall_step(self, fore),
                   IF self.column THEN output \cup {prev} ELSE output)

run_SelectFall(self, sd, input, name) ==
    IF Has(input.elements, self.source, "Sel")
    THEN IF Has(input.elements, self.solid, "Sel")
         THEN LET sel == input.elements[self.source].val
                  wall == input.elements[self.solid].val
              IN  IF \E pos \in sel : ~fall_ends(self, wall, pos)
                  THEN {Hang}
                  ELSE LET output == UNION {fall_walk(self, wall, pos, fall_step(self, pos), {})
                                              : pos \in sel}
                       IN  {Ok(With(input, Insert(input.elements, self.save, SelElem(output))))}
         ELSE {Err(<<"Attempted to run SelectFall command '", name,
                     "' with a non-boolean solid wall field!">>)}
    ELSE {Err(<<"Attempted to run SelectFall command '", name, "' with a non-boolean source!">>)}

-----------------------------------------------------------------------------
(* algorithm/cellular_automata.rs: CellAutoRule *)

CellAutoRule(neighborhood, result_expr) ==
    [present |-> TRUE, neighborhood |-> neighborhood, result_expr |-> result_expr]

\* CellAutoRule::check_pos: `as usize` on each component, no test
ca_check_pos(pos) == SomePos(pos)

\* the cells of the three nested loops over area, in the order of the loops
area_cells(area) ==
    LET d == [k \in 1..3 |-> IF area.max[k] > area.min[k] THEN area.max[k] - area.min[k] ELSE 0]
    IN  [i \in 1 .. (d[1] * d[2] * d[3]) |->
            <<area.min[1] + ((i - 1) \div (d[2] * d[3])),
              area.min[2] + (((i - 1) \div d[3]) % d[2]),
              area.min[3] + ((i - 1) % d[3])>>]

\* the loop over nh.offsets at voxel c, from offset i on
RECURSIVE ca_fold(_, _, _, _, _, _)
ca_fold(array, offsets, expr, c, i, accumulator) ==
    IF i > Len(offsets) THEN [panic |-> FALSE, acc |-> accumulator]
    ELSE LET os == offsets[i]
             checkpos == ca_check_pos(<<c[1] + os[1], c[2] + os[2], c[3] + os[3]>>)
         IN  IF checkpos.v \notin DOMAIN array
             THEN [panic |-> TRUE, acc |-> accumulator]
             ELSE ca_fold(array, offsets, expr, c, i + 1,
                          EvalAcc(expr, accumulator, array[checkpos.v]))

\* the nested loops of run_istep / run_fstep from cell i on: every cell is
\* read from and written to the one array
RECURSIVE ca_cells(_, _, _, _, _, _)
ca_cells(array, nh, expr, res_expr, cells, i) ==
    IF i > Len(cells) THEN Ok(array)
    ELSE LET c == cells[i]
             sum == ca_fold(array, nh.offsets, expr, c, 1, nh.accumulator_base)
         IN  IF sum.panic \/ c \notin DOMAIN array THEN Panic
             ELSE ca_cells([array EXCEPT ![c] = EvalRes(res_expr, array[c], sum.acc)],
                           nh, expr, res_expr, cells, i + 1)

\* a step whose default result rule keeps the state
run_step_keep_state(self, array, area) ==
    IF ~self.neighborhood.present THEN Panic
    ELSE LET nh == self.neighborhood
             expr == IF nh.summing_expr = "" THEN "acc + this" ELSE nh.summing_expr
             res_expr == IF self.result_expr = "" THEN "state" ELSE self.result_expr
         IN  ca_cells(array, nh, expr, res_expr, area_cells(area), 1)

\* CellAutoRule::run_istep and run_fstep, which differ in the scalar type
run_step(self, array, area) ==
    IF ~self.neighborhood.present THEN Panic
    ELSE LET nh == self.neighborhood
             expr == IF nh.summing_expr = "" THEN "acc + this" ELSE nh.summing_expr
             res_expr == IF self.result_expr = "" THEN "sum" ELSE self.result_expr
         IN  IF ~ParseOk(expr)
             THEN Err(<<"Expression parse error: ", "ERR_INVALID_PARAMETER">>)
             ELSE IF ~ParseOk(res_expr)
             THEN Err(<<"Result expression parse error: ", "ERR_INVALID_PARAMETER">>)
             ELSE ca_cells(array, nh, expr, res_expr, area_cells(area), 1)

\* the for loop over steps
RECURSIVE ca_steps(_, _, _, _)
ca_steps(self, array, area, steps) ==
    IF steps <= 0 THEN Ok(array)
    ELSE LET res == run_step(self, array, area)
         IN  IF res.tag # "Ok" THEN res
             ELSE ca_steps(self, res.grid, area, steps - 1)

\* a run that takes one step more than asked
ca_run_one_more(self, data, area, steps) ==
    IF data.kind \in {"Int", "Float"}
    THEN ca_steps(self, data.val, area, steps + 1)
    ELSE Err(<<"Invalid format for running CA on, must be Int or Float">>)

\* CellAutoRule::run: Ok carries the array
ca_run(self, data, area, steps) ==
    IF data.kind \in {"Int", "Float"}
    THEN ca_steps(self, data.val, area, steps)
    ELSE Err(<<"Invalid format for running CA on, must be Int or Float">>)

run_CellularAutomata(self, sd, input, name) ==
    IF self.ca_rule.present
    THEN IF self.source \in DOMAIN input.elements
         THEN LET ge == input.elements[self.source]
                  rest == Remove(input.elements, self.source)
                  res == ca_run(self.ca_rule, ge, RectPrism(self.apply_min, self.apply_max),
                                self.steps)
              IN  IF res.tag = "Err"
                  THEN {Err(<<"CellularAutomata command '", name, "' errored out with '">>
                            \o res.msg \o <<"'">>)}
                  ELSE IF res.tag = "Panic" THEN {Panic}
                  ELSE {Ok(With(input, Insert(rest, self.save,
                                              [kind |-> ge.kind, val |-> res.grid])))}
         ELSE {Err(<<"Attempted to run CellularAutomata command '", name,
                     "' on missing input!">>)}
    ELSE {Err(<<"Attempted to run CellularAutomata command '", name, "' without a rule set!">>)}

\* MapGenCommand::run_one: the match on self.mode
run_one(self, sd, input, name) ==
    CASE self.mode = "Expressions" -> run_Expressions(self, sd, input, name)
      [] self.mode = "SampleNoise" -> run_SampleNoise(self, sd, input, name)
      [] self.mode = "SampleNeighborhood" -> run_SampleNeighborhood(self, sd, input, name)
      [] self.mode = "OuterWalls" -> run_OuterWalls(self, sd, input, name)
      [] self.mode = "DropFields" -> run_DropFields(self, sd, input, name)
      [] self.mode = "RandomRooms" -> run_RandomRooms(self, sd, input, name)
      [] self.mode = "SortList" -> run_SortList(self, sd, input, name)
      [] self.mode = "CarvePaths" -> run_CarvePaths(self, sd, input, name)
      [] self.mode = "SetOps" -> run_SetOps(self, sd, input, name)
      [] self.mode = "GetRoomCenters" -> run_GetRoomCenters(self, sd, input, name)
      [] self.mode = "ListInput" -> run_ListInput(self, sd, input, name)
      [] self.mode = "ListToSel" -> run_ListToSel(self, sd, input, name)
      [] self.mode = "SelToList" -> run_SelToList(self, sd, input, name)
      [] self.mode = "CellularAutomata" -> run_CellularAutomata(self, sd, input, name)
      [] self.mode = "IntervalSelect" -> run_IntervalSelect(self, sd, input, name)
      [] self.mode = "SelectFall" -> run_SelectFall(self, sd, input, name)
      [] self.mode = "Initialize" ->
            {Err(<<"Attempted to run command '", name,
                   "' by providing one input, incorrectly!">>)}

-----------------------------------------------------------------------------
(* nodes.rs: MapGenNode::generate *)

\* a MapGenNode: its name, its command (an Option), and what get_child(0)
\* gives: "none", a "mgn" (the next node of the chain) or a node of an "other" class
MapGenNode(name, has_command, command, child) ==
    [name |-> name, has_command |-> has_command, command |-> command, child |-> child]

\* generate up to the recursive call: what it does there, and what it
\* returns when it returns without one
generate_begin(node, sd) ==
    IF ~node.has_command
    THEN [kind |-> "no_command",
          rets |-> {Err(<<"No command resource set in a generation node!">>)}]
    ELSE IF needs_input(node.command) = "No"
    THEN [kind |-> "run_none", rets |-> {run_none(node.command, sd, node.name)}]
    ELSE IF node.child # "mgn"
    THEN [kind |-> "no_child",
          rets |-> {Err(<<"MapGenNode configured to need a child MapGenNode found none!">>)}]
    ELSE [kind |-> "child", rets |-> {}]

\* a generate that runs its command whatever its child returned, and returns
\* the child's failure afterwards
generate_after_child_unchecked(node, sd, gen_result) ==
    [ran |-> TRUE,
     rets |-> IF gen_result.tag # "Ok" THEN {gen_result}
              ELSE run_one(node.command, sd, gen_result.grid, node.name)]

\* generate from the return of the recursive call on: whether run_one is
\* called, and what generate can return
generate_after_child(node, sd, gen_result) ==
    IF gen_result.tag # "Ok"
    THEN [ran |-> FALSE, rets |-> {gen_result}]
    ELSE [ran |-> TRUE, rets |-> run_one(node.command, sd, gen_result.grid, node.name)]

\* generate as one call: the values it can return for node i of the chain
RECURSIVE generate(_, _, _)
generate(nodes, i, sd) ==
    LET b == generate_begin(nodes[i], sd)
    IN  IF b.kind # "child" THEN b.rets
        ELSE UNION {generate_after_child(nodes[i], sd, r).rets : r \in generate(nodes, i + 1, sd)}

-----------------------------------------------------------------------------
(* The scene trees and command resources the pipeline is run on *)

Cmd(mode) == [MapGenCommand EXCEPT !.mode = mode]

NodeNames == <<"n1", "n2", "n3", "n4", "n5", "n6">>

\* Initialize resources: sizes with components below 1, at 1 and above
InitSizes == {-1, 1, 2} \X {0, 1, 2} \X {0, 1}
InitCommands == {[Cmd("Initialize") EXCEPT !.init_size = sz] : sz \in InitSizes}

XNeighbors == Neighborhood(<< <<1, 0, 0>>, <<-1, 0, 0>> >>, "", 0)

\* the command resources of the inner nodes
PipeCommands ==
    { [Cmd("Expressions") EXCEPT !.expression_list = <<MapGenExpression("x", "position.x", "Int")>>],
      [Cmd("Expressions") EXCEPT !.expression_list = <<MapGenExpression("x", "position.x +", "Int")>>],
      [Cmd("SampleNoise") EXCEPT !.save = "f", !.noise = TRUE],
      [Cmd("SampleNoise") EXCEPT !.save = "f"],
      [Cmd("SampleNeighborhood") EXCEPT !.source = "x", !.save = "n", !.neighborhood = XNeighbors],
      [Cmd("CellularAutomata") EXCEPT !.source = "x", !.save = "c", !.steps = 1,
                                      !.ca_rule = CellAutoRule(Neighborhood(<< <<0, 0, 0>> >>, "", 1), ""),
                                      !.apply_max = <<1, 1, 1>>],
      [Cmd("IntervalSelect") EXCEPT !.save = "s", !.interval = <<1, 1, 1>>],
      [Cmd("SelToList") EXCEPT !.source = "s", !.save = "l"],
      [Cmd("OuterWalls") EXCEPT !.save = "w"],
      [Cmd("SetOps") EXCEPT !.source = "s", !.second_source = "w", !.save = "u",
                            !.operation = "Difference"],
      [Cmd("DropFields") EXCEPT !.to_drop = <<"x", "s">>],
      [Cmd("ListInput") EXCEPT !.save = "l", !.position_list = << <<1, 0, 0>>, <<0, 0, 0>> >>] }

\* the nodes that end a chain: an Initialize node, a node without a command
\* resource, and nodes that need an input and have no MapGenNode child
LeafNodes(name) ==
    {MapGenNode(name, TRUE, c, "none") : c \in InitCommands}
    \cup {MapGenNode(name, FALSE, MapGenCommand, "none")}
    \cup {MapGenNode(name, TRUE, [Cmd("OuterWalls") EXCEPT !.save = "w"], k) : k \in {"none", "other"}}
InnerNodes(name) ==
    {MapGenNode(name, TRUE, c, "mgn") : c \in PipeCommands}

\* the chains of n nodes, the root first
RECURSIVE Chains(_, _)
Chains(first, n) ==
    IF n = 1 THEN {<<l>> : l \in LeafNodes(NodeNames[first])}
    ELSE {<<i>> \o rest : i \in InnerNodes(NodeNames[first]), rest \in Chains(first + 1, n - 1)}

Seeds == {1}

-----------------------------------------------------------------------------
(* The pipeline executor, one step for each stretch of generate between     *)
(* its calls                                                                *)

PipeIdle ==
    /\ chain = <<>> /\ seed = 0 /\ depth = 0 /\ phase = "done"
    /\ ret = None /\ calls = <<>> /\ retB = None
OpIdle == opInput = DataGrid_sized(<<0, 0, 0>>) /\ opCmd = MapGenCommand /\ opOut = None
RoomsIdle == rr = None
NoCells == [c \in {} |-> <<0, 0>>]
SearchIdle == ts = None
MapIdle == result_grid = None /\ cell_items = NoCells /\ generated = None

\* GeneratedGridMap::generate calls generate on its first child
InitPipe ==
    /\ \E n \in 1..MaxDepth : chain \in Chains(1, n)
    /\ seed \in Seeds
    /\ depth = 1 /\ phase = "enter"
    /\ ret = None /\ calls = <<>> /\ retB = None
    /\ OpIdle /\ RoomsIdle /\ MapIdle /\ SearchIdle

\* generate returns at once: no command resource
GenerateNoCommand ==
    /\ phase = "enter"
    /\ LET b == generate_begin(chain[depth], seed)
       IN  /\ b.kind = "no_command"
           /\ ret' \in b.rets
    /\ depth' = depth - 1 /\ phase' = "return"
    /\ UNCHANGED <<chain, seed, calls, retB, opInput, opCmd, opOut, rr, mapVars, ts>>

\* generate returns what run_none returns
GenerateRunNone ==
    /\ phase = "enter"
    /\ LET b == generate_begin(chain[depth], seed)
       IN  /\ b.kind = "run_none"
           /\ ret' \in b.rets
    /\ calls' = Append(calls, <<"run_none", depth>>)
    /\ depth' = depth - 1 /\ phase' = "return"
    /\ UNCHANGED <<chain, seed, retB, opInput, opCmd, opOut, rr, mapVars, ts>>

\* generate returns at once: an input is needed and child 0 is no MapGenNode
GenerateNoChild ==
    /\ phase = "enter"
    /\ LET b == generate_begin(chain[depth], seed)
       IN  /\ b.kind = "no_child"
           /\ ret' \in b.rets
    /\ depth' = depth - 1 /\ phase' = "return"
    /\ UNCHANGED <<chain, seed, calls, retB, opInput, opCmd, opOut, rr, mapVars, ts>>

\* generate calls generate on child 0
GenerateChild ==
    /\ phase = "enter"
    /\ generate_begin(chain[depth], seed).kind = "child"
    /\ depth' = depth + 1
    /\ UNCHANGED <<chain, seed, phase, ret, calls, retB, opInput, opCmd, opOut, rr, mapVars, ts>>

\* the child's generate returned to node `depth`, which returns in turn
GenerateReturn ==
    /\ phase = "return" /\ depth >= 1
    /\ ret.tag \in {"Ok", "Err"}
    /\ LET a == generate_after_child(chain[depth], seed, ret)
       IN  /\ ret' \in a.rets
           /\ calls' = IF a.ran THEN Append(calls, <<"run_one", depth>>) ELSE calls
    /\ depth' = depth - 1
    /\ UNCHANGED <<chain, seed, phase, retB, opInput, opCmd, opOut, rr, mapVars, ts>>

NextPipe ==
    \/ GenerateNoCommand
    \/ GenerateRunNone
    \/ GenerateNoChild
    \/ GenerateChild
    \/ GenerateReturn

Spec == InitPipe /\ [][NextPipe]_vars

-----------------------------------------------------------------------------
(* Claims on the pipeline executor *)

Finished == phase = "return" /\ depth = 0

\* the node whose code made the error generate returned: the node of the
\* last command run, or the last node of the chain when it returned before
\* running one
FailingNode ==
    IF generate_begin(chain[Len(chain)], seed).kind \in {"no_command", "no_child"}
    THEN Len(chain)
    ELSE calls[Len(calls)][2]

\* a call is logged either by the run_none of the node being entered or by
\* the run_one of a node whose child just returned Ok; a step taken on a
\* failed child result changes neither the log nor the result
C2_Step ==
    /\ calls' # calls =>
          \/ phase = "enter" /\ calls' = Append(calls, <<"run_none", depth>>)
          \/ /\ phase = "return" /\ ret.tag = "Ok"
             /\ calls' = Append(calls, <<"run_one", depth>>)
    /\ (phase = "return" /\ depth >= 1 /\ ret.tag # "Ok") =>
          (calls' = calls /\ ret' = ret /\ depth' = depth - 1)
    /\ (phase = "return" /\ depth >= 1 /\ ret.tag = "Ok") =>
          calls' = Append(calls, <<"run_one", depth>>)

\* in the log, every run_one of node i directly follows the command of its
\* child i+1
C2_Order ==
    \A k \in DOMAIN calls :
        calls[k][1] = "run_one" => (k > 1 /\ calls[k - 1][2] = calls[k][2] + 1)

\* C2: a node that needs an input runs its command only after its child's
\* generate returned, and only on a success; on the child's failure it
\* returns that failure and runs nothing
C2_ChildBeforeParent == [][C2_Step]_vars /\ []C2_Order

\* a failure of the leaf came up through two ancestors, none of which ran
C2_Witness ==
    /\ Finished /\ ret.tag = "Err" /\ Len(chain) = 3
    /\ calls = << <<"run_none", 3>> >>

\* C3: every error generate returns carries the name of the node that failed
C3_ErrorNamesNode ==
    (Finished /\ ret.tag = "Err") => chain[FailingNode].name \in Range(ret.msg)

\* run_none of the leaf has just returned to generate
JustInitialized ==
    /\ phase = "return" /\ Len(calls) = 1 /\ calls[1][1] = "run_none"
    /\ depth = calls[1][2] - 1

\* C4: Initialize returns an error and no grid when a size component is
\* below 1, and otherwise a grid of the configured size with no field
C4_Initialize ==
    JustInitialized =>
        LET sz == chain[depth + 1].command.init_size
        IN  IF \E k \in 1..3 : sz[k] < 1
            THEN ret.tag = "Err"
            ELSE /\ ret.tag = "Ok"
                 /\ ret.grid.size = sz
                 /\ DOMAIN ret.grid.elements = {}
C4_Witness ==
    /\ JustInitialized /\ ret.tag = "Ok"
    /\ chain[depth + 1].command.init_size = <<1, 2, 1>>

\* every Int and Float field of the grid has the shape of the grid
DenseShapeOk(grid) ==
    \A n \in DOMAIN grid.elements :
        grid.elements[n].kind \in {"Int", "Float"} =>
            DOMAIN grid.elements[n].val = Cells(grid.size)

\* C5: a grid returned after any commands has the size Initialize was given,
\* and each of its Int and Float fields has that shape
C5_SizeAndShape ==
    ret.tag = "Ok" =>
        /\ ret.grid.size = chain[Len(chain)].command.init_size
        /\ DenseShapeOk(ret.grid)
C5_Witness ==
    /\ Finished /\ ret.tag = "Ok" /\ ret.grid.size = <<2, 1, 1>>
    /\ {"x", "n"} \subseteq DOMAIN ret.grid.elements
    /\ ret.grid.elements["n"].kind = "Int"

-----------------------------------------------------------------------------
(* Two runs of one scene tree with one seed *)

InitTwoRuns ==
    /\ \E n \in 1..MaxDepth : chain \in Chains(1, n)
    /\ seed \in Seeds
    /\ depth = 0 /\ phase = "done"
    /\ ret = None /\ calls = <<>> /\ retB = None
    /\ OpIdle /\ RoomsIdle /\ MapIdle /\ SearchIdle

\* the first call of generate on the root, start to end
FirstRun ==
    /\ ret = None
    /\ ret' \in generate(chain, 1, seed)
    /\ UNCHANGED <<chain, seed, depth, phase, calls, retB, opInput, opCmd, opOut, rr, mapVars, ts>>

\* the second call, on the same tree with the same seed
SecondRun ==
    /\ ret # None /\ retB = None
    /\ retB' \in generate(chain, 1, seed)
    /\ UNCHANGED <<chain, seed, depth, phase, calls, ret, opInput, opCmd, opOut, rr, mapVars, ts>>

NextTwoRuns == FirstRun \/ SecondRun

SpecTwoRuns == InitTwoRuns /\ [][NextTwoRuns]_vars

\* C1: two runs of the same chain with the same seed and salts return the
\* same value: the same fields, values, selections and list orders
C1_Deterministic ==
    (ret # None /\ retB # None) => ret = retB

-----------------------------------------------------------------------------
(* A call of AlgorithmHelper::random_rooms, one step for each turn of its   *)
(* while loop.  The generator is left open: a turn can draw every size and  *)
(* every position of its ranges.  rr.attempts counts the turns taken; the   *)
(* code keeps no such count.                                                *)

RoomCalls ==
    {[count |-> n, within |-> w, sizes |-> sz, allow_overlap |-> ao,
      safety |-> n * 2, rms |-> <<>>, uni |-> {}, attempts |-> 0, status |-> "loop",
      overflow_checks |-> oc] :
        n \in 0..MaxCount, oc \in BOOLEAN,
        w \in {RectPrism(<<0, 0, 0>>, <<2, 2, 2>>), RectPrism(<<0, 0, 0>>, <<3, 3, 2>>),
               RectPrism(<<1, 0, 0>>, <<3, 2, 2>>), RectPrism(<<0, 0, 0>>, <<1, 1, 1>>),
               RectPrism(<<0, 0, 0>>, <<1, 2, 2>>)},
        sz \in {RectPrism(<<1, 1, 1>>, <<1, 1, 1>>), RectPrism(<<1, 1, 1>>, <<2, 2, 1>>),
                RectPrism(<<2, 1, 1>>, <<1, 1, 1>>)},
        ao \in BOOLEAN}

InitRooms == rr \in RoomCalls /\ PipeIdle /\ OpIdle /\ MapIdle /\ SearchIdle

\* one turn of the loop: a size and a position are drawn, the room is built
\* and accepted or not
RoomsAttempt ==
    /\ rr # None /\ rr.status = "loop"
    /\ room_loop_cond(rr.safety, rr.rms, rr.count)
    /\ rr.attempts < MaxAttempts
    /\ \E s \in room_sizes(rr.sizes) :
          /\ ~(rr.overflow_checks /\ room_overflows(rr.within, s))
          /\ \E p \in room_positions(rr.within, s) :
                LET st == room_attempt(rr.rms, rr.uni, s, p, rr.allow_overlap)
                IN  rr' = [rr EXCEPT !.rms = st.rms, !.uni = st.uni, !.attempts = @ + 1]
    /\ UNCHANGED <<pipeVars, opVars, mapVars, ts>>

\* random_range panics on an empty range, and so does the subtraction that
\* overflows when overflow checks are on
RoomsPanic ==
    /\ rr # None /\ rr.status = "loop"
    /\ room_loop_cond(rr.safety, rr.rms, rr.count)
    /\ \/ room_sizes(rr.sizes) = {}
       \/ \E s \in room_sizes(rr.sizes) :
             \/ room_positions(rr.within, s) = {}
             \/ rr.overflow_checks /\ room_overflows(rr.within, s)
    /\ rr' = [rr EXCEPT !.status = "panicked"]
    /\ UNCHANGED <<pipeVars, opVars, mapVars, ts>>

\* the loop condition fails: return Ok((rms, uni))
RoomsReturn ==
    /\ rr # None /\ rr.status = "loop"
    /\ ~room_loop_cond(rr.safety, rr.rms, rr.count)
    /\ rr' = [rr EXCEPT !.status = "returned"]
    /\ UNCHANGED <<pipeVars, opVars, mapVars, ts>>

NextRooms == RoomsAttempt \/ RoomsPanic \/ RoomsReturn

SpecRooms == InitRooms /\ [][NextRooms]_vars

\* C6: without allow_overlap, the rooms returned are pairwise disjoint and
\* the union returned is exactly the union of their members
C6_DisjointRooms ==
    (rr # None /\ rr.status = "returned" /\ ~rr.allow_overlap) =>
        /\ \A i, j \in DOMAIN rr.rms :
              i # j => rr.rms[i].members \cap rr.rms[j].members = {}
        /\ rr.uni = UNION {rr.rms[i].members : i \in DOMAIN rr.rms}
C6_Witness ==
    /\ rr # None /\ rr.status = "returned" /\ ~rr.allow_overlap
    /\ Len(rr.rms) = 2 /\ rr.attempts > 2
    /\ Cardinality(rr.rms[1].members) > 1

\* C7: the loop stops once 2 * count attempts are made, whatever was placed
C7_StopsAtBound ==
    (rr # None /\ rr.status = "loop" /\ rr.attempts >= 2 * rr.count) =>
        ~room_loop_cond(rr.safety, rr.rms, rr.count)

-----------------------------------------------------------------------------
(* One call of run_one on a grid with fields of every kind *)

OpSize == <<2, 2, 1>>
OpCoords == {<<0, 0, 0>>, <<1, 0, 0>>, <<0, 1, 0>>}

\* what a field can hold
OpFields ==
    {SelElem(S) : S \in SUBSET OpCoords}
    \cup {ListElem(<<>>),
          ListElem(<< <<1, 0, 0>>, <<0, 0, 0>> >>),
          ListElem(<< <<0, 1, 0>>, <<0, 0, 0>>, <<1, 0, 0>> >>)}
    \cup {RoomsElem(<<Room({<<0, 0, 0>>}, <<0, 0, 0>>)>>)}
    \cup {IntElem([c \in Cells(OpSize) |-> c[1]])}
    \cup {FloatElem([c \in Cells(OpSize) |-> 1])}

\* grids with up to the two fields "a" and "b"
OpGrids ==
    {DataGrid(OpSize, NoElements)}
    \cup {DataGrid(OpSize, Insert(NoElements, "a", fa)) : fa \in OpFields}
    \cup {DataGrid(OpSize, Insert(NoElements, "b", fb)) : fb \in OpFields}
    \cup {DataGrid(OpSize, Insert(Insert(NoElements, "a", fa), "b", fb)) :
            fa \in OpFields, fb \in OpFields}

\* the command resources called on them
OpCommands ==
    {[Cmd("SetOps") EXCEPT !.source = p[1], !.second_source = p[2], !.save = "r", !.operation = op] :
        p \in {<<"a", "b">>, <<"b", "a">>, <<"a", "c">>},
        op \in {"Union", "Intersection", "Difference"}}
    \cup {[Cmd("SelectFall") EXCEPT !.source = "a", !.solid = "b", !.save = "r",
                                    !.sf_reverse = rv, !.column = col] :
            rv \in BOOLEAN, col \in BOOLEAN}
    \cup {[Cmd("GetRoomCenters") EXCEPT !.source = "a", !.save = "r"]}
    \cup {[Cmd("SortList") EXCEPT !.source = "a", !.save = "r", !.sort_axis = ax, !.reverse = rv] :
            ax \in {"X", "Y", "Z"}, rv \in BOOLEAN}
    \cup {[Cmd("ListToSel") EXCEPT !.source = "a", !.save = "r"]}
    \cup {[Cmd("SelToList") EXCEPT !.source = "a", !.save = "r"]}
    \cup {[Cmd("SampleNeighborhood") EXCEPT !.source = "a", !.save = "r", !.edge_mode = em,
                                            !.neighborhood = XNeighbors] :
            em \in {"Ignore", "Loop", "Clamp"}}
    \cup {[Cmd("SampleNeighborhood") EXCEPT !.source = "a", !.save = "r"]}
    \cup {[Cmd("CarvePaths") EXCEPT !.source = "a", !.points_list = "b", !.save = "r"]}
    \cup {[Cmd("RandomRooms") EXCEPT !.save = "r", !.save_union = su, !.count = MaxCount,
                                     !.allow_overlap = ao, !.min_size = <<1, 1, 1>>,
                                     !.max_size = mx, !.max_within = <<3, 2, 2>>] :
            su \in {"", "u"}, ao \in BOOLEAN, mx \in {<<1, 1, 1>>, <<2, 1, 1>>}}

OpName == "n1"

\* datagrid.rs has no List element for sample_neighborhood to be called on
InitOps ==
    /\ opInput \in OpGrids
    /\ opCmd \in OpCommands
    /\ ~(opCmd.mode = "SampleNeighborhood" /\ Has(opInput.elements, opCmd.source, "List"))
    /\ opOut = None
    /\ chain = <<>> /\ seed \in Seeds /\ depth = 0 /\ phase = "done"
    /\ ret = None /\ calls = <<>> /\ retB = None
    /\ RoomsIdle /\ MapIdle /\ SearchIdle

\* the call opCmd.run_one(seed, opInput, name)
RunOne ==
    /\ opOut = None
    /\ opOut' \in run_one(opCmd, seed, opInput, OpName)
    /\ UNCHANGED <<pipeVars, opInput, opCmd, rr, mapVars, ts>>

NextOps == RunOne

SpecOps == InitOps /\ [][NextOps]_vars

\* the kind of the field of that name, "" when there is none
KindOf(grid, name) ==
    IF name \in DOMAIN grid.elements THEN grid.elements[name].kind ELSE ""

\* C8: SetOps on selections A and B saves A union B, A intersect B or A
\* minus B; Union and Intersection give the same with the sources exchanged;
\* the result of Difference has no member of B
C8_SetOps ==
    (/\ opOut # None /\ opCmd.mode = "SetOps"
     /\ KindOf(opInput, opCmd.source) = "Sel"
     /\ KindOf(opInput, opCmd.second_source) = "Sel") =>
        LET A == opInput.elements[opCmd.source].val
            B == opInput.elements[opCmd.second_source].val
            exchanged == [opCmd EXCEPT !.source = opCmd.second_source,
                                       !.second_source = opCmd.source]
        IN  /\ opOut.tag = "Ok"
            /\ KindOf(opOut.grid, opCmd.save) = "Sel"
            /\ LET R == opOut.grid.elements[opCmd.save].val
               IN  /\ opCmd.operation = "Union" =>
                        \A c \in A \cup B \cup R : c \in R <=> (c \in A \/ c \in B)
                   /\ opCmd.operation = "Intersection" =>
                        \A c \in A \cup B \cup R : c \in R <=> (c \in A /\ c \in B)
                   /\ opCmd.operation = "Difference" =>
                        /\ \A c \in A \cup B \cup R : c \in R <=> (c \in A /\ c \notin B)
                        /\ \A c \in R : c \notin B
            /\ opCmd.operation \in {"Union", "Intersection"} =>
                  run_one(exchanged, seed, opInput, OpName) = {opOut}
C8_Witness ==
    /\ opOut # None /\ opOut.tag = "Ok"
    /\ opCmd.mode = "SetOps" /\ opCmd.operation = "Difference"
    /\ opInput.elements[opCmd.source].val = {<<0, 0, 0>>, <<1, 0, 0>>}
    /\ opInput.elements[opCmd.second_source].val = {<<1, 0, 0>>, <<0, 1, 0>>}
    /\ opOut.grid.elements["r"].val = {<<0, 0, 0>>}

\* C9: a command whose named source is absent or of the wrong kind returns
\* an error, and so no grid
C9_WrongSource ==
    opOut # None =>
        LET src == KindOf(opInput, opCmd.source)
        IN  /\ (opCmd.mode = "SetOps" /\
                  (src # "Sel" \/ KindOf(opInput, opCmd.second_source) # "Sel")) =>
                    opOut.tag = "Err"
            /\ (opCmd.mode = "SelectFall" /\
                  (src # "Sel" \/ KindOf(opInput, opCmd.solid) # "Sel")) =>
                    opOut.tag = "Err"
            /\ (opCmd.mode = "GetRoomCenters" /\ src # "Rooms") => opOut.tag = "Err"
            /\ (opCmd.mode \in {"SortList", "ListToSel"} /\ src # "List") => opOut.tag = "Err"
            /\ (opCmd.mode = "SelToList" /\ src # "Sel") => opOut.tag = "Err"
            /\ (opCmd.mode = "SampleNeighborhood" /\ src \in {"", "Rooms"}) => opOut.tag = "Err"
C9_Witness ==
    /\ opOut # None /\ opOut.tag = "Err"
    /\ opCmd.mode = "ListToSel"
    /\ KindOf(opInput, opCmd.source) = "Sel"

-----------------------------------------------------------------------------
(* One call of run_one in SampleNeighborhood mode on a grid with the field  *)
(* "x", among them the grid of Initialize(4,4,4) and Expressions            *)
(* [x = position.x] with the offsets (1,0,0) and (-1,0,0)                   *)

NbhSizes == {<<4, 4, 4>>, <<2, 1, 1>>, <<3, 2, 1>>, <<1, 1, 3>>}

\* the grid of that size after Expressions with the one entry e
AfterExpression(sz, e) ==
    run_expressions([Cmd("Expressions") EXCEPT !.expression_list = <<e>>],
                    DataGrid_sized(sz), OpName, 1).grid

NbhGrids ==
    {AfterExpression(sz, e) :
        sz \in NbhSizes,
        e \in {MapGenExpression("x", "position.x", "Int"),
               MapGenExpression("x", "1", "Int"),
               MapGenExpression("x", "position.y", "Float"),
               MapGenExpression("x", "position.x > 0", "Bool")}}

NbhOffsets ==
    { << <<1, 0, 0>>, <<-1, 0, 0>> >>,
      << <<1, 0, 0>> >>,
      << <<0, 1, 0>> >>,
      << <<0, 0, -1>>, <<0, 0, 0>> >>,
      <<>> }

NbhCommands ==
    {[Cmd("SampleNeighborhood") EXCEPT !.source = "x", !.save = "nsum", !.edge_mode = em,
                                       !.neighborhood = Neighborhood(offs, "", base)] :
        em \in {"Ignore", "Loop", "Clamp"}, offs \in NbhOffsets, base \in {0, 1}}

InitNbh ==
    /\ opInput \in NbhGrids
    /\ opCmd \in NbhCommands
    /\ opOut = None
    /\ chain = <<>> /\ seed \in Seeds /\ depth = 0 /\ phase = "done"
    /\ ret = None /\ calls = <<>> /\ retB = None
    /\ RoomsIdle /\ MapIdle /\ SearchIdle

SpecNbh == InitNbh /\ [][NextOps]_vars

\* the sum of the source values at the offset neighbours of c that lie
\* inside the grid, from offset i on
RECURSIVE InGridSum(_, _, _, _)
InGridSum(grid, offsets, c, i) ==
    IF i > Len(offsets) THEN 0
    ELSE LET q == <<c[1] + offsets[i][1], c[2] + offsets[i][2], c[3] + offsets[i][3]>>
         IN  (IF q \in Cells(grid.size) THEN grid.elements["x"].val[q] ELSE 0)
             + InGridSum(grid, offsets, c, i + 1)

\* C10: with edge mode Ignore and the default sum, every voxel gets the base
\* plus the source values of the offset neighbours inside the grid; on the
\* 4x4x4 grid with x = position.x and the offsets (1,0,0), (-1,0,0) this is
\* 1 at (0,y,z), 2 at (1,y,z) and 2 at (3,y,z) for every y and z
C10_IgnoreSum ==
    (/\ opOut # None /\ opCmd.mode = "SampleNeighborhood"
     /\ opCmd.edge_mode = "Ignore"
     /\ KindOf(opInput, "x") \in {"Int", "Float"}) =>
        /\ opOut.tag = "Ok"
        /\ \A c \in Cells(opInput.size) :
              opOut.grid.elements["nsum"].val[c] =
                  opCmd.neighborhood.accumulator_base
                  + InGridSum(opInput, opCmd.neighborhood.offsets, c, 1)
        /\ (/\ opInput = AfterExpression(<<4, 4, 4>>, MapGenExpression("x", "position.x", "Int"))
            /\ opCmd.neighborhood = XNeighbors) =>
              \A y \in 0..3, z \in 0..3 :
                  /\ opOut.grid.elements["nsum"].val[<<0, y, z>>] = 1
                  /\ opOut.grid.elements["nsum"].val[<<1, y, z>>] = 2
                  /\ opOut.grid.elements["nsum"].val[<<3, y, z>>] = 2

\* C11: with edge mode Loop, the neighbour of voxel (nx-1, y, z) at offset
\* (+1,0,0) is the voxel (0, y, z), for every y and z: check_pos resolves it
\* so, and the value combined at (nx-1, y, z) is the source value at (0, y, z)
C11_LoopWraps ==
    (/\ opOut # None /\ opCmd.mode = "SampleNeighborhood"
     /\ opCmd.edge_mode = "Loop"
     /\ opCmd.neighborhood.offsets = << <<1, 0, 0>> >>
     /\ KindOf(opInput, "x") \in {"Int", "Float"}) =>
        LET nx == opInput.size[1]
        IN  /\ opOut.tag = "Ok"
            /\ \A y \in Upto(opInput.size[2]), z \in Upto(opInput.size[3]) :
                  /\ check_pos(opInput, <<(nx - 1) + 1, y, z>>, "Loop") = SomePos(<<0, y, z>>)
                  /\ opOut.grid.elements["nsum"].val[<<nx - 1, y, z>>] =
                        opCmd.neighborhood.accumulator_base
                        + opInput.elements["x"].val[<<0, y, z>>]
C11_Witness ==
    /\ opOut # None /\ opOut.tag = "Ok"
    /\ opCmd.edge_mode = "Loop" /\ opCmd.neighborhood.offsets = << <<1, 0, 0>> >>
    /\ opInput = AfterExpression(<<4, 4, 4>>, MapGenExpression("x", "position.x", "Int"))
    /\ opOut.grid.elements["nsum"].val[<<3, 0, 2>>] = opCmd.neighborhood.accumulator_base

-----------------------------------------------------------------------------
(* One call of run_one in SelectFall mode on a grid with the selections     *)
(* "a" (source) and "b" (solid).  A selection holds any coordinates, also   *)
(* ones below the grid, such as a floor at y = -1.                          *)

FallSize == <<2, 3, 1>>
FallYs == -1 .. 2
FallCoords == {<<0, y, 0>> : y \in FallYs} \cup {<<1, 1, 0>>}

FallGrids ==
    {DataGrid(FallSize, Insert(Insert(NoElements, "a", SelElem(sel)), "b", SelElem(wall))) :
        sel \in SUBSET FallCoords, wall \in SUBSET FallCoords}

FallCommands ==
    {[Cmd("SelectFall") EXCEPT !.source = "a", !.solid = "b", !.save = "r",
                               !.sf_reverse = rv, !.column = col] :
        rv \in BOOLEAN, col \in BOOLEAN}

InitFall ==
    /\ opInput \in FallGrids
    /\ opCmd \in FallCommands
    /\ opOut = None
    /\ chain = <<>> /\ seed \in Seeds /\ depth = 0 /\ phase = "done"
    /\ ret = None /\ calls = <<>> /\ retB = None
    /\ RoomsIdle /\ MapIdle /\ SearchIdle

SpecFall == InitFall /\ [][NextOps]_vars

\* the cell k steps from p along y, down or up
FallCell(p, k, up) == <<p[1], IF up THEN p[2] + k ELSE p[2] - k, p[3]>>

\* the number of steps from p to its resting cell: the first k whose next
\* cell is solid
FallDist(p, wall, up) ==
    CHOOSE k \in 0 .. Cardinality(FallYs) :
        /\ FallCell(p, k + 1, up) \in wall
        /\ \A j \in 1 .. k : FallCell(p, j, up) \notin wall

\* C12: SelectFall saves, for each source member p, the resting cell of the
\* walk from p along y (the last cell before the first solid cell), and with
\* column also every cell from p to the resting cell; p itself when the
\* first step is solid
C12_SelectFall ==
    (opOut # None /\ opCmd.mode = "SelectFall" /\ opOut.tag = "Ok") =>
        LET sel == opInput.elements["a"].val
            wall == opInput.elements["b"].val
            up == opCmd.sf_reverse
        IN  opOut.grid.elements["r"].val =
                IF opCmd.column
                THEN {FallCell(p, j, up) : <<p, j>> \in
                          {<<q, i>> \in sel \X (0 .. Cardinality(FallYs)) : i <= FallDist(q, wall, up)}}
                ELSE {FallCell(p, FallDist(p, wall, up), up) : p \in sel}
C12_Witness ==
    /\ opOut # None /\ opOut.tag = "Ok" /\ opCmd.column /\ ~opCmd.sf_reverse
    /\ opInput.elements["a"].val = {<<0, 2, 0>>, <<0, 0, 0>>}
    /\ opInput.elements["b"].val = {<<0, -1, 0>>}
    /\ opOut.grid.elements["r"].val = {<<0, 2, 0>>, <<0, 1, 0>>, <<0, 0, 0>>}

-----------------------------------------------------------------------------
(* One call of run_one in CellularAutomata mode on a grid with the field    *)
(* "a"                                                                      *)

CASizes == {<<3, 1, 1>>, <<2, 2, 1>>}

CAFields(sz) ==
    {IntElem([c \in Cells(sz) |-> c[1]]),
     IntElem([c \in Cells(sz) |-> 1]),
     IntElem([c \in Cells(sz) |-> 2 * c[1] + c[2] + 1]),
     FloatElem([c \in Cells(sz) |-> c[1] + 1]),
     SelElem({<<0, 0, 0>>})}

CAGrids ==
    {DataGrid(sz, NoElements) : sz \in CASizes}
    \cup UNION {{DataGrid(sz, Insert(NoElements, "a", f)) : f \in CAFields(sz)} : sz \in CASizes}

CAKernels ==
    { <<>>, << <<0, 0, 0>> >>, << <<-1, 0, 0>> >>, << <<1, 0, 0>> >>,
      << <<-1, 0, 0>>, <<0, 0, 0>> >> }

CAAreas ==
    {RectPrism(<<0, 0, 0>>, <<3, 1, 1>>), RectPrism(<<1, 0, 0>>, <<3, 1, 1>>),
     RectPrism(<<0, 0, 0>>, <<2, 2, 1>>), RectPrism(<<0, 0, 0>>, <<1, 1, 1>>)}

CACommands ==
    {[Cmd("CellularAutomata") EXCEPT
          !.source = "a", !.save = sv, !.steps = n,
          !.apply_min = ar.min, !.apply_max = ar.max,
          !.ca_rule = CellAutoRule(Neighborhood(k, "", base), re)] :
        sv \in {"a", "r"}, n \in 0 .. MaxSteps, ar \in CAAreas,
        k \in CAKernels, base \in {0, 1}, re \in {"", "state + sum"}}
    \cup {[Cmd("CellularAutomata") EXCEPT !.source = "a", !.save = "r"]}

InitCA ==
    /\ opInput \in CAGrids
    /\ opCmd \in CACommands
    /\ opOut = None
    /\ chain = <<>> /\ seed \in Seeds /\ depth = 0 /\ phase = "done"
    /\ ret = None /\ calls = <<>> /\ retB = None
    /\ RoomsIdle /\ MapIdle /\ SearchIdle

SpecCA == InitCA /\ [][NextOps]_vars

\* a CellularAutomata call with a rule, on an Int or Float source
CAValid ==
    /\ opOut # None /\ opCmd.mode = "CellularAutomata" /\ opCmd.ca_rule.present
    /\ KindOf(opInput, "a") \in {"Int", "Float"}

\* the target region of the call, and whether it lies inside the array
CARegion ==
    {c \in Cells(opCmd.apply_max) : \A k \in 1..3 : opCmd.apply_min[k] <= c[k]}
CARegionInside ==
    \A k \in 1..3 : opCmd.apply_min[k] >= 0 /\ opCmd.apply_max[k] <= opInput.size[k]


\* the field the call was given, the field it saved, and the rule's parts
CAOld == opInput.elements["a"].val
CANew == opOut.grid.elements[opCmd.save].val
CAKernel == opCmd.ca_rule.neighborhood.offsets
CABase == opCmd.ca_rule.neighborhood.accumulator_base
CAResExpr == IF opCmd.ca_rule.result_expr = "" THEN "sum" ELSE opCmd.ca_rule.result_expr

\* C13: with steps = 0 the field saved has the kind and, at every voxel, the
\* value of the source field
C13_ZeroSteps ==
    (CAValid /\ opCmd.steps = 0) =>
        /\ opOut.tag = "Ok"
        /\ opOut.grid.elements[opCmd.save] = opInput.elements["a"]
C13_Witness ==
    /\ CAValid /\ opCmd.steps = 0 /\ opOut.tag = "Ok" /\ opCmd.save = "r"
    /\ opInput.size = <<2, 2, 1>>
    /\ CANew[<<1, 1, 0>>] = 4 /\ CANew[<<0, 0, 0>>] = 1

\* C14: after one step, every voxel of the target region holds the result
\* rule applied to its value before the step and to the base plus the sum of
\* its neighbours' values before the step
C14_Synchronous ==
    (CAValid /\ opCmd.steps = 1 /\ opOut.tag = "Ok") =>
        \A c \in CARegion :
            CANew[c] = EvalRes(CAResExpr, CAOld[c],
                               CABase + SeqSum([i \in DOMAIN CAKernel |->
                                   CAOld[<<c[1] + CAKernel[i][1], c[2] + CAKernel[i][2],
                                           c[3] + CAKernel[i][3]>>]]))

\* C15: a step over a region inside the array completes whatever the kernel,
\* and a neighbour position outside the array adds nothing: with the kernel
\* (+1,0,0), the voxel at the last x holds the result rule applied to its
\* value and the base
C15_SkipsOutside ==
    (CAValid /\ CARegionInside /\ opCmd.steps >= 1) =>
        /\ opOut.tag = "Ok"
        /\ (opCmd.steps = 1 /\ CAKernel = << <<1, 0, 0>> >>) =>
              \A c \in CARegion :
                  c[1] = opInput.size[1] - 1 =>
                      CANew[c] = EvalRes(CAResExpr, CAOld[c], CABase)

\* C16: with an empty kernel and the default rules, a run of one step or
\* more over a region inside the array leaves the base value at every voxel
\* of the region
C16_EmptyKernel ==
    (/\ CAValid /\ opCmd.steps >= 1 /\ CAKernel = <<>>
     /\ opCmd.ca_rule.result_expr = "" /\ CARegionInside) =>
        /\ opOut.tag = "Ok"
        /\ \A c \in CARegion : CANew[c] = CABase
C16_Witness ==
    /\ CAValid /\ opCmd.steps = 2 /\ CAKernel = <<>> /\ opCmd.ca_rule.result_expr = ""
    /\ opOut.tag = "Ok" /\ opInput.size = <<3, 1, 1>>
    /\ opCmd.apply_min = <<1, 0, 0>>
    /\ CAOld[<<2, 0, 0>>] = 5 /\ CABase = 0
    /\ CANew[<<2, 0, 0>>] = 0 /\ CANew[<<0, 0, 0>>] = 1


-----------------------------------------------------------------------------
(* One call of run_one in CarvePaths mode on a grid with the weight field   *)
(* "a" and the waypoint list "b"                                            *)

CarveSize == <<2, 1, 2>>

\* waypoint lists: empty, one point, one and two segments, with and without
\* a waypoint outside the grid
CarveLists ==
    { <<>>,
      << <<0, 0, 0>> >>,
      << <<0, 0, 0>>, <<1, 0, 0>> >>,
      << <<1, 0, 0>>, <<0, 0, 0>> >>,
      << <<0, 0, 0>>, <<0, 0, 0>> >>,
      << <<0, 0, 0>>, <<5, 0, 0>> >>,
      << <<0, 0, 0>>, <<1, 0, 0>>, <<1, 0, 1>> >>,
      << <<0, 0, 0>>, <<5, 0, 0>>, <<1, 0, 1>> >>,
      << <<1, 0, 1>>, <<0, 0, 1>>, <<5, 0, 0>> >> }

CarveGrids ==
    {DataGrid(CarveSize, Insert(Insert(NoElements, "a", fa), "b", fb)) :
        fa \in {FloatElem([c \in Cells(CarveSize) |-> 1]),
                IntElem([c \in Cells(CarveSize) |-> 1])},
        fb \in {ListElem(l) : l \in CarveLists} \cup {SelElem({<<0, 0, 0>>})}}
    \cup {DataGrid(CarveSize, Insert(NoElements, "a", FloatElem([c \in Cells(CarveSize) |-> 1])))}

CarveCommands ==
    {[Cmd("CarvePaths") EXCEPT !.source = "a", !.points_list = "b", !.save = sv,
                               !.max_slope = 1, !.vertical_skew = vs] :
        sv \in {"r", "a"}, vs \in {0, 1}}

InitCarve ==
    /\ opInput \in CarveGrids
    /\ opCmd \in CarveCommands
    /\ opOut = None
    /\ chain = <<>> /\ seed \in Seeds /\ depth = 0 /\ phase = "done"
    /\ ret = None /\ calls = <<>> /\ retB = None
    /\ RoomsIdle /\ MapIdle /\ SearchIdle

SpecCarve == InitCarve /\ [][NextOps]_vars

\* C17: CarvePaths fails as a whole when the search of one pair of
\* consecutive waypoints fails
C17_AbortsOnFailure ==
    (/\ opOut # None /\ opCmd.mode = "CarvePaths"
     /\ KindOf(opInput, "a") = "Float" /\ KindOf(opInput, "b") = "List"
     /\ LET vec == opInput.elements["b"].val
        IN  \E i \in 1 .. (Len(vec) - 1) :
               thstar(SearchMap(opInput.elements["a"].val, opInput.size,
                                Ratio(Abs(opCmd.max_slope), 1), Abs(opCmd.vertical_skew)),
                      vec[i], vec[i + 1]) = {[tag |-> "Err"]}) =>
        opOut.tag = "Err"


-----------------------------------------------------------------------------
(* One call of run_one in OuterWalls mode *)

WallSizes == (1 .. 3) \X (1 .. 3) \X (1 .. 3)

WallGrids ==
    {DataGrid(sz, NoElements) : sz \in WallSizes}
    \cup {DataGrid(sz, Insert(NoElements, "w", SelElem({<<1, 1, 1>>}))) : sz \in WallSizes}

WallCommands ==
    {[Cmd("OuterWalls") EXCEPT !.save = sv] : sv \in {"", "w", "v"}}

InitWalls ==
    /\ opInput \in WallGrids
    /\ opCmd \in WallCommands
    /\ opOut = None
    /\ chain = <<>> /\ seed \in Seeds /\ depth = 0 /\ phase = "done"
    /\ ret = None /\ calls = <<>> /\ retB = None
    /\ RoomsIdle /\ MapIdle /\ SearchIdle

SpecWalls == InitWalls /\ [][NextOps]_vars

\* C18: OuterWalls fails on an empty save name, and otherwise saves exactly
\* the voxels of the grid with x in {0, nx-1}, y in {0, ny-1} or z in
\* {0, nz-1}
C18_OuterWalls ==
    (opOut # None /\ opCmd.mode = "OuterWalls") =>
        IF opCmd.save = "" THEN opOut.tag = "Err"
        ELSE /\ opOut.tag = "Ok"
             /\ opOut.grid.elements[opCmd.save].val =
                   {c \in Cells(opInput.size) :
                       \E k \in 1..3 : c[k] = 0 \/ c[k] = opInput.size[k] - 1}


-----------------------------------------------------------------------------
(* One call of run_one in IntervalSelect mode *)

IntervalSizes == {<<4, 4, 4>>, <<3, 2, 1>>}
IntervalStrides == (0 .. 2) \X (1 .. 2) \X (0 .. 2)
IntervalOffsets == {<<0, 0, 0>>, <<1, 0, 0>>, <<0, 1, 1>>, <<-1, 0, 0>>}

IntervalCommands ==
    {[Cmd("IntervalSelect") EXCEPT !.save = "s", !.interval = iv, !.offset = off] :
        iv \in IntervalStrides, off \in IntervalOffsets}

InitInterval ==
    /\ opInput \in {DataGrid(sz, NoElements) : sz \in IntervalSizes}
    /\ opCmd \in IntervalCommands
    /\ opOut = None
    /\ chain = <<>> /\ seed \in Seeds /\ depth = 0 /\ phase = "done"
    /\ ret = None /\ calls = <<>> /\ retB = None
    /\ RoomsIdle /\ MapIdle /\ SearchIdle

SpecInterval == InitInterval /\ [][NextOps]_vars

\* C19: with strides of 1 or more and offsets of 0 or more, IntervalSelect
\* saves exactly the voxels (x, y, z) of the grid with x - offset.x a
\* multiple of interval.x from 0 on, and the same for y and z with
\* interval.y and interval.z
C19_IntervalSelect ==
    (/\ opOut # None /\ opCmd.mode = "IntervalSelect"
     /\ \A k \in 1..3 : opCmd.interval[k] >= 1 /\ opCmd.offset[k] >= 0) =>
        /\ opOut.tag = "Ok"
        /\ opOut.grid.elements["s"].val =
              {c \in Cells(opInput.size) :
                  \A k \in 1..3 : /\ c[k] >= opCmd.offset[k]
                                  /\ (c[k] - opCmd.offset[k]) % opCmd.interval[k] = 0}


-----------------------------------------------------------------------------
(* One call of run_one in SortList mode on a grid with the field "a" *)

SortSize == <<2, 2, 2>>
SortCoords == {<<0, 0, 0>>, <<0, 1, 0>>, <<1, 0, 1>>, <<1, 1, 0>>}

RECURSIVE SortLists(_)
SortLists(n) ==
    IF n = 0 THEN {<<>>}
    ELSE SortLists(n - 1)
         \cup {Append(l, c) : l \in {m \in SortLists(n - 1) : Len(m) = n - 1}, c \in SortCoords}

SortGrids ==
    {DataGrid(SortSize, Insert(NoElements, "a", ListElem(l))) : l \in SortLists(MaxLen)}
    \cup {DataGrid(SortSize, Insert(NoElements, "a", SelElem({<<0, 0, 0>>}))),
          DataGrid(SortSize, NoElements)}

SortCommands ==
    {[Cmd("SortList") EXCEPT !.source = "a", !.save = "r", !.sort_axis = ax, !.reverse = rv] :
        ax \in {"X", "Y", "Z"}, rv \in BOOLEAN}

InitSort ==
    /\ opInput \in SortGrids
    /\ opCmd \in SortCommands
    /\ opOut = None
    /\ chain = <<>> /\ seed \in Seeds /\ depth = 0 /\ phase = "done"
    /\ ret = None /\ calls = <<>> /\ retB = None
    /\ RoomsIdle /\ MapIdle /\ SearchIdle

SpecSort == InitSort /\ [][NextOps]_vars

\* the coordinate of entry a on the sort axis of the call
SortCoordinate(a) ==
    CASE opCmd.sort_axis = "X" -> a[1]
      [] opCmd.sort_axis = "Y" -> a[2]
      [] opCmd.sort_axis = "Z" -> a[3]

\* C20: the list SortList saves is the source list rearranged, in
\* non-decreasing order of the axis coordinate (non-increasing with
\* reverse), with entries of equal coordinate in their source order
C20_SortList ==
    (opOut # None /\ opCmd.mode = "SortList" /\ KindOf(opInput, "a") = "List") =>
        /\ opOut.tag = "Ok"
        /\ LET vec == opInput.elements["a"].val
               out == opOut.grid.elements["r"].val
           IN  /\ Len(out) = Len(vec)
               /\ \E pi \in Perms(DOMAIN vec) :
                     /\ \A i \in DOMAIN vec : out[i] = vec[pi[i]]
                     /\ \A i, j \in DOMAIN vec :
                           i < j =>
                              /\ IF opCmd.reverse
                                 THEN SortCoordinate(out[i]) >= SortCoordinate(out[j])
                                 ELSE SortCoordinate(out[i]) <= SortCoordinate(out[j])
                              /\ SortCoordinate(out[i]) = SortCoordinate(out[j]) => pi[i] < pi[j]
C20_Witness ==
    /\ opOut # None /\ opOut.tag = "Ok" /\ opCmd.mode = "SortList"
    /\ opCmd.reverse /\ opCmd.sort_axis = "X"
    /\ opInput.elements["a"].val = << <<0, 1, 0>>, <<1, 1, 0>>, <<1, 0, 1>> >>
    /\ opOut.grid.elements["r"].val = << <<1, 1, 0>>, <<1, 0, 1>>, <<0, 1, 0>> >>


-----------------------------------------------------------------------------
(* Claims on the edge modes Loop and Clamp of sample_neighborhood *)

\* the sum of the source values at the offset neighbours of c, each
\* neighbour index resolved on every axis by Resolve(index, extent)
RECURSIVE ResolvedSum(_, _, _, _, _)
ResolvedSum(Resolve(_, _), grid, offsets, c, i) ==
    IF i > Len(offsets) THEN 0
    ELSE LET q == [k \in 1..3 |-> Resolve(c[k] + offsets[i][k], grid.size[k])]
         IN  grid.elements["x"].val[<<q[1], q[2], q[3]>>]
             + ResolvedSum(Resolve, grid, offsets, c, i + 1)

\* an index taken modulo the extent, into 0..extent-1
WrapIndex(p, n) == p % n
\* an index taken to the nearest index of 0..extent-1
ClampIndex(p, n) == IF p < 0 THEN 0 ELSE IF p >= n THEN n - 1 ELSE p

\* C23: with edge mode Loop every neighbour index is taken modulo the extent
\* of its axis, index -1 to extent-1, index extent to 0 and an index of
\* 0..extent-1 to itself, and the lookup stays inside the array: the call
\* returns, and each voxel holds the base plus the source values at the
\* wrapped neighbours
C23_LoopModulo ==
    (/\ opOut # None /\ opCmd.mode = "SampleNeighborhood"
     /\ opCmd.edge_mode = "Loop"
     /\ KindOf(opInput, "x") \in {"Int", "Float"}) =>
        /\ \A k \in 1..3 : \A p \in -1 .. opInput.size[k] :
              check_axis(p, opInput.size[k], "Loop") = SomePos(WrapIndex(p, opInput.size[k]))
        /\ opOut.tag = "Ok"
        /\ \A c \in Cells(opInput.size) :
              opOut.grid.elements["nsum"].val[c] =
                  opCmd.neighborhood.accumulator_base
                  + ResolvedSum(WrapIndex, opInput, opCmd.neighborhood.offsets, c, 1)

\* C24: with edge mode Clamp every neighbour index is taken to the nearest
\* valid index, a negative one to 0, one of extent or more to extent-1, and
\* an index of 0..extent-1, 0 included, to itself: each voxel holds the base
\* plus the source values at the clamped neighbours
C24_ClampNearest ==
    (/\ opOut # None /\ opCmd.mode = "SampleNeighborhood"
     /\ opCmd.edge_mode = "Clamp"
     /\ KindOf(opInput, "x") \in {"Int", "Float"}) =>
        /\ \A k \in 1..3 : \A p \in -1 .. opInput.size[k] :
              check_axis(p, opInput.size[k], "Clamp") = SomePos(ClampIndex(p, opInput.size[k]))
        /\ opOut.tag = "Ok"
        /\ \A c \in Cells(opInput.size) :
              opOut.grid.elements["nsum"].val[c] =
                  opCmd.neighborhood.accumulator_base
                  + ResolvedSum(ClampIndex, opInput, opCmd.neighborhood.offsets, c, 1)

-----------------------------------------------------------------------------
(* Claim on the rooms random_rooms returns *)

\* the cuboid of dimensions s at position p
Cuboid(s, p) ==
    {c \in Cells(<<p[1] + s[1], p[2] + s[2], p[3] + s[3]>>) : \A k \in 1..3 : p[k] <= c[k]}

\* C26: every room returned is the full cuboid pos..pos+dims-1 of dimensions
\* within sized, lies inside within, has its center at pos + dims/2
\* truncated, and at most count rooms are returned
C26_DenseCuboid ==
    (rr # None /\ rr.status = "returned") =>
        /\ Len(rr.rms) <= rr.count
        /\ \A i \in DOMAIN rr.rms :
              \E s \in room_sizes(rr.sizes) :
                 \E p \in (0 .. rr.within.max[1]) \X (0 .. rr.within.max[2])
                              \X (0 .. rr.within.max[3]) :
                    /\ rr.rms[i].members = Cuboid(s, p)
                    /\ \A c \in rr.rms[i].members : \A k \in 1..3 :
                          rr.within.min[k] <= c[k] /\ c[k] < rr.within.max[k]
                    /\ rr.rms[i].center =
                          <<p[1] + (s[1] \div 2), p[2] + (s[2] \div 2), p[3] + (s[3] \div 2)>>

-----------------------------------------------------------------------------
(* Claim on the end of the walk of SelectFall *)

\* C28: SelectFall returns for every source Selection and every solid
\* Selection, also when no solid cell lies ahead of a source member
C28_FallTerminates ==
    (/\ opOut # None /\ opCmd.mode = "SelectFall"
     /\ Has(opInput.elements, opCmd.source, "Sel")
     /\ Has(opInput.elements, opCmd.solid, "Sel")) => opOut.tag = "Ok"

-----------------------------------------------------------------------------
(* One call of run_one on a grid with the fields "a", "b" and "k", saved   *)
(* under a new name or under the name of one of the three                  *)

FrameSize == <<2, 2, 1>>

FrameFields ==
    {SelElem({<<0, 1, 0>>}), SelElem({<<0, 0, 0>>, <<1, 0, 0>>}),
     ListElem(<< <<1, 0, 0>>, <<0, 0, 0>> >>),
     RoomsElem(<<Room({<<0, 0, 0>>}, <<0, 0, 0>>)>>),
     IntElem([c \in Cells(FrameSize) |-> c[1]]),
     FloatElem([c \in Cells(FrameSize) |-> 1])}

FrameGrids ==
    {DataGrid(FrameSize, Insert(Insert(Insert(NoElements, "a", fa), "b", fb), "k", fk)) :
        fa \in FrameFields, fb \in FrameFields,
        fk \in {SelElem({<<1, 1, 0>>}), ListElem(<< <<1, 1, 0>> >>),
                IntElem([c \in Cells(FrameSize) |-> 7])}}

FrameSaves == {"r", "a", "b", "k"}

FrameCommands ==
    {[Cmd(m) EXCEPT !.source = "a", !.save = sv] :
        m \in {"GetRoomCenters", "SortList", "ListToSel", "SelToList"}, sv \in FrameSaves}
    \cup {[Cmd("SetOps") EXCEPT !.source = "a", !.second_source = "b", !.save = sv,
                                !.operation = "Intersection"] : sv \in FrameSaves}
    \cup {[Cmd("SelectFall") EXCEPT !.source = "a", !.solid = "b", !.save = sv,
                                    !.column = TRUE] : sv \in FrameSaves}
    \cup {[Cmd("SampleNeighborhood") EXCEPT !.source = "a", !.save = sv,
                                            !.neighborhood = XNeighbors] : sv \in FrameSaves}
    \cup {[Cmd("CellularAutomata") EXCEPT
               !.source = "a", !.save = sv, !.steps = 1, !.apply_max = FrameSize,
               !.ca_rule = CellAutoRule(Neighborhood(<< <<0, 0, 0>> >>, "", 0), "state + sum")] :
            sv \in FrameSaves}
    \cup {[Cmd("CarvePaths") EXCEPT !.source = "a", !.points_list = "b", !.save = sv,
                                    !.max_slope = 1, !.vertical_skew = 1] : sv \in FrameSaves}

InitFrame ==
    /\ opInput \in FrameGrids
    /\ opCmd \in FrameCommands
    /\ ~(opCmd.mode = "SampleNeighborhood" /\ Has(opInput.elements, opCmd.source, "List"))
    /\ opOut = None
    /\ chain = <<>> /\ seed \in Seeds /\ depth = 0 /\ phase = "done"
    /\ ret = None /\ calls = <<>> /\ retB = None
    /\ RoomsIdle /\ MapIdle /\ SearchIdle

SpecFrame == InitFrame /\ [][NextOps]_vars

\* the names a command takes out of the grid, and the names it only reads
ConsumedNames ==
    CASE opCmd.mode \in {"SortList", "ListToSel", "SelToList", "CellularAutomata"} ->
            {opCmd.source}
      [] opCmd.mode = "CarvePaths" -> {opCmd.source, opCmd.points_list}
      [] OTHER -> {}
ReadNames ==
    CASE opCmd.mode = "SetOps" -> {opCmd.source, opCmd.second_source}
      [] opCmd.mode = "SelectFall" -> {opCmd.source, opCmd.solid}
      [] opCmd.mode \in {"GetRoomCenters", "SampleNeighborhood"} -> {opCmd.source}
      [] OTHER -> {}

\* the field of that name is in both grids and is the same in both
SameField(name) ==
    /\ name \in DOMAIN opInput.elements /\ name \in DOMAIN opOut.grid.elements
    /\ opOut.grid.elements[name].kind = opInput.elements[name].kind
    /\ opOut.grid.elements[name].val = opInput.elements[name].val

\* C29: after a successful command the fields it consumes are absent unless
\* saved over, the fields it only reads are present and unchanged unless
\* saved over, and every other field but the saved one is unchanged
C29_SourceConsumption ==
    (opOut # None /\ opOut.tag = "Ok") =>
        /\ \A n \in ConsumedNames : n \in DOMAIN opOut.grid.elements <=> n = opCmd.save
        /\ \A n \in ReadNames \ {opCmd.save} : SameField(n)
        /\ \A n \in (DOMAIN opInput.elements \cup DOMAIN opOut.grid.elements)
                      \ (ConsumedNames \cup {opCmd.save}) : SameField(n)
C29_Witness ==
    /\ opOut # None /\ opOut.tag = "Ok"
    /\ opCmd.mode = "CarvePaths" /\ opCmd.save = "r"
    /\ DOMAIN opInput.elements = {"a", "b", "k"}
    /\ DOMAIN opOut.grid.elements = {"k", "r"}
\* C29 as stated: the reading commands leave their sources present and
\* unchanged, whatever the save name
C29_SourcesAlwaysKept ==
    (opOut # None /\ opOut.tag = "Ok") => \A n \in ReadNames : SameField(n)

-----------------------------------------------------------------------------
(* nodes.rs: GeneratedGridMap.  `chain` is the scene under the node: the    *)
(* chain of MapGenNodes from its child 0 on, <<>> when child 0 is missing   *)
(* or is no MapGenNode.                                                     *)

Some(g) == [tag |-> "Some", grid |-> g]

\* GeneratedGridMap::generate: what it can leave in result_grid, with the
\* generated it got (None when it returned before the call)
map_generate(scene, sd, old) ==
    IF scene = <<>>
    THEN {[result_grid |-> old, generated |-> None]}
    ELSE {[result_grid |-> IF r.tag = "Ok" THEN Some(r.grid) ELSE None, generated |-> r] :
            r \in generate(scene, 1, sd)}

\* the loop of place: set_cell_item_ex on every cell of the grid
place_cells(rg, cells, offset) ==
    LET arr == rg.elements["mesh"].val
        with_rot == Has(rg.elements, "rotation", "Int")
        target(c) == <<offset[1] + c[1], offset[2] + c[2], offset[3] + c[3]>>
        written == {target(c) : c \in Cells(rg.size)}
        source(t) == <<t[1] - offset[1], t[2] - offset[2], t[3] - offset[3]>>
    IN  [t \in DOMAIN cells \cup written |->
            IF t \in written
            THEN <<arr[source(t)],
                   IF with_rot THEN rg.elements["rotation"].val[source(t)] ELSE 0>>
            ELSE cells[t]]

\* GeneratedGridMap::place: result_grid and the cells after the call
map_place(stored, cells, offset) ==
    IF stored = None
    THEN [result_grid |-> stored, cell_items |-> cells]
    ELSE LET rg == stored.grid   \* self.result_grid.take().unwrap()
         IN  IF "mesh" \notin DOMAIN rg.elements
             THEN [result_grid |-> None, cell_items |-> cells]
             ELSE IF rg.elements["mesh"].kind # "Int"
             THEN [result_grid |-> None, cell_items |-> cells]
             ELSE [result_grid |-> Some(rg), cell_items |-> place_cells(rg, cells, offset)]

\* get_fields and get_list on the stored grid
get_fields(stored) ==
    IF stored # None THEN DOMAIN stored.grid.elements ELSE {}
get_list(stored, name) ==
    IF stored # None /\ Has(stored.grid.elements, name, "List")
    THEN stored.grid.elements[name].val ELSE <<>>

\* the scenes: an Expressions node over an Initialize node, a node alone,
\* and no MapGenNode at all
MeshCommands ==
    {[Cmd("Expressions") EXCEPT !.expression_list = el] :
        el \in {<<MapGenExpression("mesh", "position.x", "Int")>>,
                <<MapGenExpression("mesh", "position.x", "Float")>>,
                <<MapGenExpression("x", "position.x", "Int")>>,
                <<MapGenExpression("mesh", "1", "Int"),
                  MapGenExpression("rotation", "position.x", "Int")>>,
                <<MapGenExpression("mesh", "1", "Int"),
                  MapGenExpression("rotation", "position.x", "Float")>>,
                <<MapGenExpression("mesh", "position.x +", "Int")>>}}
    \cup {[Cmd("ListInput") EXCEPT !.save = "l", !.position_list = << <<1, 0, 0>> >>]}
MapScenes ==
    {<<>>}
    \cup {<<l>> : l \in LeafNodes("n1")}
    \cup {<<MapGenNode("n1", TRUE, c, "mgn"), l>> : c \in MeshCommands, l \in LeafNodes("n2")}
PlaceOffsets == {<<0, 0, 0>>, <<1, 0, 0>>}

InitMap ==
    /\ chain \in MapScenes /\ seed \in Seeds
    /\ depth = 0 /\ phase = "done" /\ ret = None /\ calls = <<>> /\ retB = None
    /\ OpIdle /\ RoomsIdle /\ MapIdle /\ SearchIdle

\* a call of generate(seed)
MapGenerate ==
    /\ \E r \in map_generate(chain, seed, result_grid) :
          result_grid' = r.result_grid /\ generated' = r.generated
    /\ UNCHANGED <<pipeVars, opVars, rr, cell_items, ts>>

\* a call of place(offset)
MapPlace ==
    /\ \E offset \in PlaceOffsets :
          LET r == map_place(result_grid, cell_items, offset)
          IN  result_grid' = r.result_grid /\ cell_items' = r.cell_items
    /\ UNCHANGED <<pipeVars, opVars, rr, generated, ts>>

NextMap == MapGenerate \/ MapPlace

SpecMap == InitMap /\ [][NextMap]_vars

\* C30: when the last generate succeeded, result_grid holds the grid it
\* returned, also after every later place, and get_fields and get_list
\* answer from that grid
C30_PlaceKeepsGrid ==
    (generated # None /\ generated.tag = "Ok") =>
        /\ result_grid = Some(generated.grid)
        /\ get_fields(result_grid) = DOMAIN generated.grid.elements
        /\ Has(generated.grid.elements, "l", "List") =>
              get_list(result_grid, "l") = generated.grid.elements["l"].val

-----------------------------------------------------------------------------
(* One call of thstar, a turn of its while loop at a time, on weight arrays *)
(* of uniform 1s                                                            *)

SearchDims == {<<2, 1, 2>>, <<3, 1, 1>>, <<2, 2, 1>>, <<2, 2, 2>>}
SearchSlopes == {Ratio(1, 2), Ratio(1, 1)}
SearchSkews == {0, 1}

\* the voxels a waypoint list can name: those of the array, and some outside
SearchPoints(dim) ==
    Cells(dim) \cup {<<-1, 0, 0>>, <<dim[1], 0, 0>>, <<0, dim[2], 0>>}

SearchCalls ==
    UNION {{thstar_begin(SearchMap([c \in Cells(dim) |-> 1], dim, ms, sk), a, b) :
               a \in SearchPoints(dim), b \in SearchPoints(dim),
               ms \in SearchSlopes, sk \in SearchSkews} : dim \in SearchDims}

InitSearch == ts \in SearchCalls /\ PipeIdle /\ OpIdle /\ RoomsIdle /\ MapIdle

\* one turn of the while loop: the node of least score leaves the open map;
\* it is the goal and thstar returns (or walks the parents without end), or
\* its neighbours are visited and it enters the closed map
SearchTurn ==
    /\ ts # None /\ ts.result = None /\ DOMAIN ts.open # {}
    /\ \E key \in min_keys(ts.open) : ts' = thstar_turn(ts, key)
    /\ UNCHANGED <<pipeVars, opVars, rr, mapVars>>

\* the open map is empty: return Err(())
SearchFail ==
    /\ ts # None /\ ts.result = None /\ DOMAIN ts.open = {}
    /\ ts' = [ts EXCEPT !.result = [tag |-> "Err"]]
    /\ UNCHANGED <<pipeVars, opVars, rr, mapVars>>

NextSearch == SearchTurn \/ SearchFail

SpecSearch == InitSearch /\ [][NextSearch]_vars

-----------------------------------------------------------------------------
(* Claims on thstar *)

InBounds(a) == a \in Cells(ts.self.dim)
\* one unit step along x or z, same y
HorizontallyAdjacent(a, b) ==
    a[2] = b[2] /\ Abs(a[1] - b[1]) + Abs(a[3] - b[3]) = 1

\* C21: between two voxels of the array that are horizontally adjacent, on
\* uniform weights, thstar returns Ok of a non-empty selection that holds
\* the start and the goal
C21_AdjacentPath ==
    (/\ ts # None /\ InBounds(ts.start) /\ InBounds(ts.end)
     /\ HorizontallyAdjacent(ts.start, ts.end)) =>
        /\ (ts.result = None => DOMAIN ts.open # {})
        /\ ts.result # None =>
              /\ ts.result.tag = "Ok"
              /\ ts.result.path # {}
              /\ ts.start \in ts.result.path /\ ts.end \in ts.result.path
C21_Witness ==
    /\ ts # None /\ ts.self.dim = <<2, 2, 2>>
    /\ ts.start = <<1, 1, 1>> /\ ts.end = <<1, 1, 0>>
    /\ ts.result # None /\ ts.result.tag = "Ok"
    /\ <<1, 1, 1>> \in ts.result.path /\ <<1, 1, 0>> \in ts.result.path

\* C22: with max_slope below 1 no voxel of another y level than the start
\* is ever opened, and a goal at another y level gives Err(())
C22_SlopeLimit ==
    (ts # None /\ ts.self.max_slope.num < ts.self.max_slope.den) =>
        /\ \A a \in ts.opened : a[2] = ts.start[2]
        /\ (ts.result # None /\ ts.end[2] # ts.start[2]) => ts.result.tag = "Err"

\* C25: at a node reached from its parent by the move d, the filter of
\* directions lets the move d and the moves at a right angle to d pass, and
\* rejects the move -d
C25_DirectionFilter ==
    ts # None =>
        \A c \in DOMAIN ts.closed :
            LET d == ts.closed[c].pvec
            IN  (d # <<0, 0, 0>> /\ ~HasHuge(d)) =>
                   \A i \in DOMAIN offset_list :
                      LET offs == offset_list[i]
                      IN  /\ offs = d => ~dot_above_reversal(offs, d)
                          /\ dot_int(offs, d) = 0 => ~dot_above_reversal(offs, d)
                          /\ offs = <<-d[1], -d[2], -d[3]>> => dot_above_reversal(offs, d)

\* C27: thstar ends: only voxels of the array are opened, no voxel is open
\* and closed at once, the loop takes at most one turn for each voxel of the
\* array, and the walk along the parents ends
C27_Terminates ==
    ts # None =>
        /\ \A a \in ts.opened : InBounds(a)
        /\ DOMAIN ts.open \cap DOMAIN ts.closed = {}
        /\ Cardinality(DOMAIN ts.closed) <= Cardinality(Cells(ts.self.dim))
        /\ ts.result # Hang

====
